---------------------------- MODULE Spec2Model ----------------------------
(***************************************************************************)
(* A model of the YouTubeFilters content script: the quantity parsers, the *)
(* four filter predicates and their orchestrator, and the scan loop, in    *)
(* its two variants: the modular engine (YouTubeFilterEngine.runFilters    *)
(* with the filter, settings and DOM modules) and the monolithic           *)
(* content.js (runAllFilters).                                             *)
(*                                                                         *)
(* Text is modelled as a sequence of one-character strings, so that the    *)
(* regular expressions, trim/split/toLowerCase and the number parsers are  *)
(* computed character by character, as the JavaScript does.                *)
(***************************************************************************)
EXTENDS Integers, Sequences, FiniteSets, TLC

(***************************************************************************)
(* JavaScript values                                                       *)
(***************************************************************************)

\* null / undefined for a text-valued field: a one-element sequence whose
\* element is no character, so that every text value is a sequence.
Null ==
    <<"<null>">>

\* !text for a value that is a string, null or undefined.
Falsy(t) ==
    t = Null \/ t = <<>>

\* A JavaScript number as parseFloat and the multiplications of the parsers
\* produce it: NaN (nan = TRUE), or the non-negative decimal num * 10^exp (exp
\* is negative for a number with decimals), so that 2.3 * 1000000000 is held
\* exactly.
Num(n) ==
    [nan |-> FALSE, num |-> n, exp |-> 0]

RECURSIVE Pow10(_)
Pow10(k) ==
    IF k = 0 THEN 1 ELSE 10 * Pow10(k - 1)

\* num * 10^exp < n for exp >= 0, without forming the product.
RECURSIVE LessScaled(_, _, _)
LessScaled(num, exp, n) ==
    IF exp = 0
    THEN num < n
    ELSE IF num >= n THEN FALSE ELSE LessScaled(num * 10, exp - 1, n)

\* A variant of NumLt that also holds for a = n.
NumLt_orEqual(a, n) ==
    /\ ~a.nan
    /\ IF a.exp >= 0
       THEN LessScaled(a.num, a.exp, n + 1)
       ELSE a.num <= n * Pow10(0 - a.exp)

\* a < n for a parsed number a and an integer n (false when a is NaN).
NumLt(a, n) ==
    /\ ~a.nan
    /\ IF a.exp >= 0
       THEN LessScaled(a.num, a.exp, n)
       ELSE a.num < n * Pow10(0 - a.exp)

\* number *= factor, factor being a power of ten
NumTimes(a, factor) ==
    IF a.nan
    THEN [nan |-> TRUE, num |-> 0, exp |-> 0]
    ELSE [a EXCEPT !.exp = @ + (CHOOSE k \in 0..9 : Pow10(k) = factor)]

(***************************************************************************)
(* Characters and strings                                                  *)
(***************************************************************************)

\* The texts the model names: the literal words of the regular expressions, the
\* default keywords, and what the cards of the page show.
Text ==
    [spoiler |-> <<"s", "p", "o", "i", "l", "e", "r">>,
     clickbait |-> <<"c", "l", "i", "c", "k", "b", "a", "i", "t">>,
     sponsor |-> <<"s", "p", "o", "n", "s", "o", "r">>,
     END |-> <<"E", "N", "D">>,
     video |-> <<"v", "i", "d", "e", "o">>,
     view |-> <<"v", "i", "e", "w">>,
     ago |-> <<"a", "g", "o">>,
     streamed |-> <<"s", "t", "r", "e", "a", "m", "e", "d">>,
     No_view |-> <<"N", "o", " ", "v", "i", "e", "w">>,
     year |-> <<"y", "e", "a", "r">>,
     Big_SPOILER |-> <<"B", "i", "g", " ", "S", "P", "O", "I", "L", "E", "R">>,
     Cat_video |-> <<"C", "a", "t", " ", "v", "i", "d", "e", "o">>,
     Ending_SPOILER_Discussion |->
         <<"E", "n", "d", "i", "n", "g", " ", "S", "P", "O", "I", "L", "E", "R", " ", "D", "i", "s", "c", "u", "s", "s", "i", "o", "n">>,
     views_6K |-> <<"6", "K", " ", "v", "i", "e", "w", "s">>,
     views_10K |-> <<"1", "0", "K", " ", "v", "i", "e", "w", "s">>,
     views_50K |-> <<"5", "0", "K", " ", "v", "i", "e", "w", "s">>,
     No_views |-> <<"N", "o", " ", "v", "i", "e", "w", "s">>,
     views_1_234_567 |->
         <<"1", ",", "2", "3", "4", ",", "5", "6", "7", " ", "v", "i", "e", "w", "s">>,
     ago_2_years |-> <<"2", " ", "y", "e", "a", "r", "s", " ", "a", "g", "o">>,
     ago_7_years |-> <<"7", " ", "y", "e", "a", "r", "s", " ", "a", "g", "o">>,
     ago_3_months |->
         <<"3", " ", "m", "o", "n", "t", "h", "s", " ", "a", "g", "o">>,
     at_12_05 |-> <<"1", "2", ":", "0", "5">>,
     at_0_45 |-> <<"0", ":", "4", "5">>,
     ab |-> <<"a", "b">>,
     x5 |-> <<"x", "5">>,
     five_x |-> <<"5", "x">>,
     abc |-> <<"a", "b", "c">>,
     dot |-> <<".">>,
     N_A |-> <<"N", ".", "A", ".">>]

DigitChars ==
    <<"0", "1", "2", "3", "4", "5", "6", "7", "8", "9">>

DigitValues ==
    [c \in {DigitChars[i] : i \in 1..Len(DigitChars)} |->
        (CHOOSE i \in 1..Len(DigitChars) : DigitChars[i] = c) - 1]

\* \d
IsDigit(c) ==
    c \in DOMAIN DigitValues

\* \s
IsSpace(c) ==
    c \in {" ", "\n"}

\* The lower-case letter of each upper-case letter.
LowerOf ==
    LET lower == <<"a", "b", "c", "d", "e", "f", "g", "h", "i", "j", "k", "l", "m",
                   "n", "o", "p", "q", "r", "s", "t", "u", "v", "w", "x", "y", "z">>
        upper == <<"A", "B", "C", "D", "E", "F", "G", "H", "I", "J", "K", "L", "M",
                   "N", "O", "P", "Q", "R", "S", "T", "U", "V", "W", "X", "Y", "Z">>
    IN  [c \in {upper[i] : i \in 1..26} |->
            lower[CHOOSE i \in 1..26 : upper[i] = c]]

\* The upper-case letter of each lower-case letter.
UpperOf ==
    [c \in {LowerOf[u] : u \in DOMAIN LowerOf} |->
        CHOOSE u \in DOMAIN LowerOf : LowerOf[u] = c]

toLowerChar(c) ==
    IF c \in DOMAIN LowerOf THEN LowerOf[c] ELSE c

\* String.prototype.toLowerCase
toLowerCase(s) ==
    [i \in 1..Len(s) |-> toLowerChar(s[i])]

\* String.prototype.trim
trim(s) ==
    IF \A i \in 1..Len(s) : IsSpace(s[i])
    THEN <<>>
    ELSE LET a == CHOOSE i \in 1..Len(s) :
                      ~IsSpace(s[i]) /\ \A k \in 1..(i - 1) : IsSpace(s[k])
             b == CHOOSE i \in 1..Len(s) :
                      ~IsSpace(s[i]) /\ \A k \in (i + 1)..Len(s) : IsSpace(s[k])
         IN  SubSeq(s, a, b)

\* String.prototype.includes
includes(hay, needle) ==
    \E i \in 1..(Len(hay) - Len(needle) + 1) :
        SubSeq(hay, i, i + Len(needle) - 1) = needle

\* The text pat, compared case-insensitively (the i flag), stands at index i of s.
MatchesAtI(s, i, pat) ==
    /\ i >= 1
    /\ i + Len(pat) - 1 <= Len(s)
    /\ \A k \in 1..Len(pat) : toLowerChar(s[i + k - 1]) = toLowerChar(pat[k])

\* The index after the longest run of digits that starts at i (i itself when
\* s[i] is no digit): the greedy \d* at i.
DigitRunEnd(s, i) ==
    CHOOSE j \in i..(Len(s) + 1) :
        /\ \A k \in i..(j - 1) : IsDigit(s[k])
        /\ (j = Len(s) + 1 \/ ~IsDigit(s[j]))

\* The greedy \s* at i.
SpaceRunEnd(s, i) ==
    CHOOSE j \in i..(Len(s) + 1) :
        /\ \A k \in i..(j - 1) : IsSpace(s[k])
        /\ (j = Len(s) + 1 \/ ~IsSpace(s[j]))

\* The greedy [\d\.]* at i.
DigitDotRunEnd(s, i) ==
    CHOOSE j \in i..(Len(s) + 1) :
        /\ \A k \in i..(j - 1) : (IsDigit(s[k]) \/ s[k] = ".")
        /\ (j = Len(s) + 1 \/ ~(IsDigit(s[j]) \/ s[j] = "."))

\* The value of a sequence of digits (0 for the empty one).
RECURSIVE DigitsToNat(_)
DigitsToNat(ds) ==
    IF ds = <<>>
    THEN 0
    ELSE DigitsToNat(SubSeq(ds, 1, Len(ds) - 1)) * 10 + DigitValues[ds[Len(ds)]]

\* parseInt(s, 10): leading white space, an optional sign, then the longest run
\* of digits; NaN (nan = TRUE) when there is none.
parseInt(s) ==
    LET a    == SpaceRunEnd(s, 1)
        sign == a <= Len(s) /\ s[a] \in {"+", "-"}
        b    == IF sign THEN a + 1 ELSE a
        e    == DigitRunEnd(s, b)
        v    == DigitsToNat(SubSeq(s, b, e - 1))
    IN  IF e = b
        THEN [nan |-> TRUE, val |-> 0]
        ELSE [nan |-> FALSE, val |-> IF sign /\ s[a] = "-" THEN 0 - v ELSE v]

\* parseFloat(s): leading white space, then the longest prefix that is a decimal
\* literal (digits, an optional point and digits); NaN when that prefix holds no
\* digit. Signs, exponents and "Infinity" do not occur after [\d\.]+ has matched
\* and are read as unparseable here.
parseFloat(s) ==
    LET a  == SpaceRunEnd(s, 1)
        e  == DigitRunEnd(s, a)
        pt == e <= Len(s) /\ s[e] = "."
        f  == IF pt THEN DigitRunEnd(s, e + 1) ELSE e
        ip == SubSeq(s, a, e - 1)
        fp == IF pt THEN SubSeq(s, e + 1, f - 1) ELSE <<>>
    IN  IF ip = <<>> /\ fp = <<>>
        THEN [nan |-> TRUE, num |-> 0, exp |-> 0]
        ELSE [nan |-> FALSE,
              num |-> DigitsToNat(ip) * Pow10(Len(fp)) + DigitsToNat(fp),
              exp |-> 0 - Len(fp)]

\* String.prototype.split on a one-character separator.
RECURSIVE split(_, _)
split(s, sep) ==
    IF \E i \in 1..Len(s) : s[i] = sep
    THEN LET i == CHOOSE i \in 1..Len(s) :
                      s[i] = sep /\ \A k \in 1..(i - 1) : s[k] # sep
         IN  <<SubSeq(s, 1, i - 1)>> \o split(SubSeq(s, i + 1, Len(s)), sep)
    ELSE <<s>>

\* text.replace(/,/g, "")
RECURSIVE removeCommas(_)
removeCommas(s) ==
    IF s = <<>>
    THEN <<>>
    ELSE (IF s[1] = "," THEN <<>> ELSE <<s[1]>>) \o removeCommas(Tail(s))

\* text.replace(/views?/i, ""): the leftmost "view", with the "s" after it
\* when there is one, is removed.
removeViews(s) ==
    IF \E i \in 1..Len(s) : MatchesAtI(s, i, <<"v", "i", "e", "w">>)
    THEN LET i == CHOOSE i \in 1..Len(s) :
                      /\ MatchesAtI(s, i, <<"v", "i", "e", "w">>)
                      /\ \A k \in 1..(i - 1) : ~MatchesAtI(s, k, <<"v", "i", "e", "w">>)
             e == IF MatchesAtI(s, i + 4, <<"s">>) THEN i + 5 ELSE i + 4
         IN  SubSeq(s, 1, i - 1) \o SubSeq(s, e, Len(s))
    ELSE s

(***************************************************************************)
(* Quantity parsers (src/src/utils/utils.js; content.js lines 13-76 hold   *)
(* the same three functions, character for character)                      *)
(***************************************************************************)

\* The leftmost of a set of indexes, 0 when the set is empty: where a regular
\* expression matches first.
Leftmost(indexes) ==
    IF indexes = {}
    THEN 0
    ELSE CHOOSE i \in indexes : \A k \in indexes : i <= k

\* match[2].toUpperCase() of /([\d\.]+)\s*([KMB]?)/i, j being where \s* ends
SuffixAt(cleaned, j) ==
    IF j <= Len(cleaned) /\ cleaned[j] \in {"K", "M", "B", "k", "m", "b"}
    THEN IF cleaned[j] \in DOMAIN UpperOf THEN UpperOf[cleaned[j]] ELSE cleaned[j]
    ELSE ""

\* if (suffix === "K") return number * 1000 ... return number
Scaled(number, suffix) ==
    IF suffix = "K" THEN NumTimes(number, 1000)
    ELSE IF suffix = "M" THEN NumTimes(number, 1000000)
    ELSE IF suffix = "B" THEN NumTimes(number, 1000000000)
    ELSE number

\* parseViewCount from the match on, a being where [\d\.]+ matches first
\* (0: no match, and then isNaN(directNumber) ? 0 : directNumber).
NumberOfCleaned(cleaned, a) ==
    IF a > 0
    THEN Scaled(parseFloat(SubSeq(cleaned, a, DigitDotRunEnd(cleaned, a) - 1)),
                SuffixAt(cleaned, SpaceRunEnd(cleaned, DigitDotRunEnd(cleaned, a))))
    ELSE IF parseFloat(cleaned).nan THEN Num(0) ELSE parseFloat(cleaned)

\* cleaned.match(/([\d\.]+)\s*([KMB]?)/i) and what parseViewCount returns
CleanedNumber(cleaned) ==
    NumberOfCleaned(cleaned,
                    Leftmost({i \in 1..Len(cleaned) :
                                 IsDigit(cleaned[i]) \/ cleaned[i] = "."}))

\* parseViewCount(text): "1.4K views" -> 1400
parseViewCount(text) ==
    IF Falsy(text)
    THEN Num(0)
    ELSE CleanedNumber(trim(removeCommas(removeViews(text))))

\* match[1] of /(\d+)\s*<letter>.../i as a number, i being where the regular
\* expression matches first; -1 when it does not match (i = 0).
NumberAt(s, i) ==
    IF i = 0
    THEN -1
    ELSE DigitsToNat(SubSeq(s, i, DigitRunEnd(s, i) - 1))

\* cleaned.match(/(\d+)\s*<letter>.../i): the number of the leftmost run of digits
\* that is followed, after optional white space, by the letter; -1 when the
\* regular expression does not match. The optional rest of the unit word never
\* decides the match.
NumberBeforeLetter(s, letter) ==
    NumberAt(s, Leftmost({i \in 1..Len(s) :
                             /\ IsDigit(s[i])
                             /\ MatchesAtI(s, SpaceRunEnd(s, DigitRunEnd(s, i)),
                                           <<letter>>)}))


\* The text format: hours * 3600 + minutes * 60 + seconds of the units found.
TextDuration(cleaned) ==
    (IF NumberBeforeLetter(cleaned, "h") >= 0
     THEN NumberBeforeLetter(cleaned, "h") * 3600 ELSE 0)
    + (IF NumberBeforeLetter(cleaned, "m") >= 0
       THEN NumberBeforeLetter(cleaned, "m") * 60 ELSE 0)
    + (IF NumberBeforeLetter(cleaned, "s") >= 0
       THEN NumberBeforeLetter(cleaned, "s") ELSE 0)

\* A variant of ColonDuration that reads "MM:SS" as "HH:MM".
ColonDuration_hours(parts, cleaned) ==
    IF \E i \in 1..Len(parts) : parts[i].nan
    THEN 0
    ELSE IF Len(parts) = 2
         THEN parts[1].val * 3600 + parts[2].val * 60
         ELSE IF Len(parts) = 3
              THEN parts[1].val * 3600 + parts[2].val * 60 + parts[3].val
              ELSE 0

\* The branch of parseDuration for a text with a colon.
ColonDuration(parts, cleaned) ==
    IF \E i \in 1..Len(parts) : parts[i].nan
    THEN 0
    ELSE IF Len(parts) = 2
         THEN parts[1].val * 60 + parts[2].val
         ELSE IF Len(parts) = 3
              THEN parts[1].val * 3600 + parts[2].val * 60 + parts[3].val
              ELSE TextDuration(cleaned)

DurationOfCleaned(cleaned) ==
    IF \E i \in 1..Len(cleaned) : cleaned[i] = ":"
    \* cleaned.split(":").map((p) => parseInt(p.trim(), 10))
    THEN ColonDuration([i \in 1..Len(split(cleaned, ":")) |->
                           parseInt(trim(split(cleaned, ":")[i]))], cleaned)
    ELSE TextDuration(cleaned)

\* parseDuration(text): "12:05" -> 725, "1:23:45" -> 5025, "12 minutes" -> 720
parseDuration(text) ==
    IF Falsy(text)
    THEN 0
    ELSE DurationOfCleaned(trim(text))

\* /(\d+)\s+year/i matches at index i of text.
YearMatchAt(text, i) ==
    /\ IsDigit(text[i])
    /\ SpaceRunEnd(text, DigitRunEnd(text, i)) > DigitRunEnd(text, i)
    /\ MatchesAtI(text, SpaceRunEnd(text, DigitRunEnd(text, i)), Text.year)

\* match ? parseInt(match[1], 10) : 0, i being where the match starts
YearsAt(text, i) ==
    IF i = 0
    THEN 0
    ELSE DigitsToNat(SubSeq(text, i, DigitRunEnd(text, i) - 1))

\* parseVideoAge(text): text.match(/(\d+)\s+year/i), "2 years ago" -> 2
parseVideoAge(text) ==
    IF Falsy(text)
    THEN 0
    ELSE YearsAt(text, Leftmost({i \in 1..Len(text) : YearMatchAt(text, i)}))

(***************************************************************************)
(* Settings objects and property reads                                     *)
(*                                                                         *)
(* A settings object is a record; a key the object does not have reads as  *)
(* undefined, which is falsy, and every comparison with it is false.       *)
(***************************************************************************)

Has(obj, key) ==
    key \in DOMAIN obj

\* A variant of Truthy that reads every flag as set.
Truthy_always(obj, key) ==
    TRUE

\* settings[key] read as a condition, for a boolean-valued or missing key.
Truthy(obj, key) ==
    Has(obj, key) /\ obj[key]

\* !settings[key] for a number-valued or missing key.
FalsyNumber(obj, key) ==
    ~Has(obj, key) \/ obj[key] = 0

\* { shouldFilter: false }
NotFiltered ==
    [shouldFilter |-> FALSE]

\* The null of applyAllFilters and the undefined of Array.prototype.find.
NoDecision ==
    [isNull |-> TRUE]

Filtered(reason, details) ==
    [shouldFilter |-> TRUE, reason |-> reason, details |-> details]

(***************************************************************************)
(* Filter predicates of the modular filter module (src/unnamed/part_002)   *)
(***************************************************************************)

\* A variant of checkViewsFilter that handles the text "No views" as an
\* absent view count.
checkViewsFilter_sentinel(videoData, settings) ==
    IF ~Truthy(settings, "viewsFilterEnabled")
       \/ (Has(settings, "minViews") /\ settings.minViews <= 0)
    THEN NotFiltered
    ELSE IF Falsy(videoData.viewCount) \/ videoData.viewCount = Text.No_views
         THEN Filtered("views", <<"No view count (likely Mix/Playlist)">>)
         ELSE IF /\ Has(settings, "minViews")
                 /\ NumLt(parseViewCount(videoData.viewCount), settings.minViews)
              THEN Filtered("views", <<"Low views", videoData.viewCount>>)
              ELSE NotFiltered

checkViewsFilter(videoData, settings) ==
    IF ~Truthy(settings, "viewsFilterEnabled")
       \/ (Has(settings, "minViews") /\ settings.minViews <= 0)
    THEN NotFiltered
    ELSE IF Falsy(videoData.viewCount)
         THEN Filtered("views", <<"No view count (likely Mix/Playlist)">>)
         ELSE IF /\ Has(settings, "minViews")
                 /\ NumLt(parseViewCount(videoData.viewCount), settings.minViews)
              THEN Filtered("views", <<"Low views", videoData.viewCount>>)
              ELSE NotFiltered

\* A variant of checkDurationFilter that filters a record without a duration.
checkDurationFilter_strict(videoData, settings) ==
    IF ~(Has(settings, "durationFilterEnabled") /\ settings.durationFilterEnabled)
    THEN [shouldFilter |-> FALSE]
    ELSE [shouldFilter |-> TRUE, reason |-> "duration", details |-> <<"Duration">>]

\* A variant of OutOfRange in which a duration equal to a bound is outside.
OutOfRange_strict(durationSeconds, settings) ==
    \/ ~(FalsyNumber(settings, "minDuration")
         \/ durationSeconds > settings.minDuration)
    \/ ~(FalsyNumber(settings, "maxDuration")
         \/ durationSeconds < settings.maxDuration)

\* !minOk || !maxOk of checkDurationFilter
OutOfRange(durationSeconds, settings) ==
    \/ ~(FalsyNumber(settings, "minDuration")
         \/ durationSeconds >= settings.minDuration)
    \/ ~(FalsyNumber(settings, "maxDuration")
         \/ durationSeconds <= settings.maxDuration)

checkDurationFilter(videoData, settings) ==
    IF ~Truthy(settings, "durationFilterEnabled")
    THEN NotFiltered
    ELSE IF FalsyNumber(settings, "minDuration") /\ FalsyNumber(settings, "maxDuration")
         THEN NotFiltered
         ELSE IF Falsy(videoData.duration)
              THEN NotFiltered
              ELSE IF OutOfRange(parseDuration(videoData.duration), settings)
                   THEN Filtered("duration", <<"Duration", videoData.duration>>)
                   ELSE NotFiltered

\* A variant of checkAgeFilter that also filters an age equal to maxAge.
checkAgeFilter_atLeast(videoData, settings) ==
    IF ~Truthy(settings, "ageFilterEnabled")
       \/ (Has(settings, "maxAge") /\ settings.maxAge <= 0)
    THEN NotFiltered
    ELSE IF Falsy(videoData.publishTime)
         THEN NotFiltered
         ELSE IF /\ Has(settings, "maxAge")
                 /\ parseVideoAge(videoData.publishTime) >= settings.maxAge
              THEN Filtered("age", <<"Too old", videoData.publishTime>>)
              ELSE NotFiltered

checkAgeFilter(videoData, settings) ==
    IF ~Truthy(settings, "ageFilterEnabled")
       \/ (Has(settings, "maxAge") /\ settings.maxAge <= 0)
    THEN NotFiltered
    ELSE IF Falsy(videoData.publishTime)
         THEN NotFiltered
         ELSE IF /\ Has(settings, "maxAge")
                 /\ parseVideoAge(videoData.publishTime) > settings.maxAge
              THEN Filtered("age", <<"Too old", videoData.publishTime>>)
              ELSE NotFiltered

\* A variant of KeywordLoop that compares the keyword as it is written.
RECURSIVE KeywordLoop_exact(_, _, _)
KeywordLoop_exact(titleLower, keywords, i) ==
    IF i > Len(keywords)
    THEN NotFiltered
    ELSE IF keywords[i] # <<>> /\ includes(titleLower, keywords[i])
         THEN Filtered("keyword", <<"Banned keyword", keywords[i]>>)
         ELSE KeywordLoop_exact(titleLower, keywords, i + 1)

\* The for-of loop over settings.bannedKeywords, from index i on.
RECURSIVE KeywordLoop(_, _, _)
KeywordLoop(titleLower, keywords, i) ==
    IF i > Len(keywords)
    THEN NotFiltered
    ELSE IF keywords[i] # <<>> /\ includes(titleLower, toLowerCase(keywords[i]))
         THEN Filtered("keyword", <<"Banned keyword", keywords[i]>>)
         ELSE KeywordLoop(titleLower, keywords, i + 1)

checkKeywordsFilter(videoData, settings) ==
    IF \/ ~Truthy(settings, "keywordFilterEnabled")
       \/ ~Has(settings, "bannedKeywords")
       \/ Len(settings.bannedKeywords) = 0
    THEN NotFiltered
    ELSE IF Falsy(videoData.title)
         THEN NotFiltered
         ELSE KeywordLoop(toLowerCase(videoData.title), settings.bannedKeywords, 1)

\* Placeholder for future channel-based filtering.
checkChannelFilter(videoData, settings) ==
    NotFiltered

\* A variant of getAllFilterFunctions with the keyword predicate first.
getAllFilterFunctions_keywordFirst ==
    <<"checkKeywordsFilter", "checkViewsFilter", "checkDurationFilter",
      "checkAgeFilter", "checkChannelFilter">>

getAllFilterFunctions ==
    <<"checkViewsFilter", "checkDurationFilter", "checkAgeFilter",
      "checkKeywordsFilter", "checkChannelFilter">>

\* filterFunc(videoData, settings) for a member of getAllFilterFunctions.
CallFilter(filterFunc, videoData, settings) ==
    CASE filterFunc = "checkViewsFilter"    -> checkViewsFilter(videoData, settings)
      [] filterFunc = "checkDurationFilter" -> checkDurationFilter(videoData, settings)
      [] filterFunc = "checkAgeFilter"      -> checkAgeFilter(videoData, settings)
      [] filterFunc = "checkKeywordsFilter" -> checkKeywordsFilter(videoData, settings)
      [] filterFunc = "checkChannelFilter"  -> checkChannelFilter(videoData, settings)

RECURSIVE ApplyLoop(_, _, _, _)

\* if (result.shouldFilter) return result, and otherwise the next round
ResultOrNext(result, filterFunctions, i, videoData, settings) ==
    IF result.shouldFilter
    THEN result
    ELSE ApplyLoop(filterFunctions, i + 1, videoData, settings)

\* The for-of loop of applyAllFilters, from index i on.
ApplyLoop(filterFunctions, i, videoData, settings) ==
    IF i > Len(filterFunctions)
    THEN NoDecision
    ELSE ResultOrNext(CallFilter(filterFunctions[i], videoData, settings),
                      filterFunctions, i, videoData, settings)

applyAllFilters(videoData, settings) ==
    ApplyLoop(getAllFilterFunctions, 1, videoData, settings)

(***************************************************************************)
(* Filter predicates of the monolithic content script (src/content.js)     *)
(***************************************************************************)

content_checkViewsFilter(videoData, settings) ==
    IF ~Truthy(settings, "viewsFilterEnabled")
       \/ (Has(settings, "minViews") /\ settings.minViews <= 0)
    THEN NotFiltered
    ELSE IF Falsy(videoData.viewCount)
         THEN Filtered("no-views", <<"No view count (likely Mix/Playlist)">>)
         ELSE IF /\ Has(settings, "minViews")
                 /\ NumLt(parseViewCount(videoData.viewCount), settings.minViews)
              THEN Filtered("views", <<"Low views", videoData.viewCount>>)
              ELSE NotFiltered

content_checkDurationFilter(videoData, settings) ==
    IF ~Truthy(settings, "durationFilterEnabled")
    THEN NotFiltered
    ELSE IF FalsyNumber(settings, "minDuration") /\ FalsyNumber(settings, "maxDuration")
         THEN NotFiltered
         ELSE IF Falsy(videoData.duration)
              THEN NotFiltered
              ELSE IF OutOfRange(parseDuration(videoData.duration), settings)
                   THEN Filtered("duration", <<"Duration", videoData.duration>>)
                   ELSE NotFiltered

content_checkAgeFilter(videoData, settings) ==
    IF ~Truthy(settings, "ageFilterEnabled")
       \/ (Has(settings, "maxAge") /\ settings.maxAge <= 0)
    THEN NotFiltered
    ELSE IF Falsy(videoData.publishTime)
         THEN NotFiltered
         ELSE IF /\ Has(settings, "maxAge")
                 /\ parseVideoAge(videoData.publishTime) > settings.maxAge
              THEN Filtered("age", <<"Too old", videoData.publishTime>>)
              ELSE NotFiltered

content_checkKeywordsFilter(videoData, settings) ==
    IF \/ ~Truthy(settings, "keywordsFilterEnabled")
       \/ ~Has(settings, "bannedKeywords")
       \/ Len(settings.bannedKeywords) = 0
    THEN NotFiltered
    ELSE IF Falsy(videoData.title)
         THEN NotFiltered
         ELSE KeywordLoop(toLowerCase(videoData.title), settings.bannedKeywords, 1)

\* filters.find((f) => f.shouldFilter): the first one, undefined when none
find(filters) ==
    IF \E i \in 1..Len(filters) : filters[i].shouldFilter
    THEN filters[Leftmost({i \in 1..Len(filters) : filters[i].shouldFilter})]
    ELSE NoDecision

\* The filters array of runAllFilters and its triggeredFilter.
content_triggeredFilter(videoData, settings) ==
    find(<<content_checkViewsFilter(videoData, settings),
           content_checkDurationFilter(videoData, settings),
           content_checkAgeFilter(videoData, settings),
           content_checkKeywordsFilter(videoData, settings)>>)

(***************************************************************************)
(* Settings manager (src/src/core/settings-manager.js) and setting.js      *)
(*                                                                         *)
(* A raw object (what chrome.storage.sync holds, what a settingsUpdated    *)
(* message carries) is a record of tagged values [t |-> typeof, v |-> ...],*)
(* an array being [t |-> "array", v |-> <<tagged values>>]. Numbers are    *)
(* integers, on which Math.floor changes nothing.                          *)
(***************************************************************************)

DEFAULT_FILTER_SETTINGS ==
    [viewsFilterEnabled    |-> TRUE,
     durationFilterEnabled |-> TRUE,
     keywordFilterEnabled  |-> TRUE,
     ageFilterEnabled      |-> TRUE,
     minViews              |-> 10000,
     minDuration           |-> 60,
     maxDuration           |-> 3600,
     maxAge                |-> 5,
     bannedKeywords        |-> <<Text.spoiler, Text.clickbait, Text.sponsor>>]

\* DEFAULT_SETTINGS of setting.js, the keys the popup saves.
DEFAULT_SETTINGS ==
    [viewsFilterEnabled    |-> TRUE,
     durationFilterEnabled |-> TRUE,
     keywordFilterEnabled  |-> TRUE,
     ageFilterEnabled      |-> TRUE,
     minViews              |-> 10000,
     minDuration           |-> 60,
     maxDuration           |-> 3600,
     maxAgeYears           |-> 5,
     keywords              |-> <<Text.spoiler, Text.clickbait, Text.sponsor>>]

DEFAULT_STATS ==
    [views |-> 0, keywords |-> 0, duration |-> 0, age |-> 0, total |-> 0]

\* The raw object of a settings object whose values have their declared types.
Tag(obj) ==
    [key \in DOMAIN obj |->
        IF key \in {"viewsFilterEnabled", "durationFilterEnabled",
                    "keywordFilterEnabled", "ageFilterEnabled", "keywordsFilterEnabled"}
        THEN [t |-> "boolean", v |-> obj[key]]
        ELSE IF key \in {"minViews", "minDuration", "maxDuration", "maxAge", "maxAgeYears"}
        THEN [t |-> "number", v |-> obj[key]]
        ELSE [t |-> "array",
              v |-> [i \in 1..Len(obj[key]) |-> [t |-> "string", v |-> obj[key][i]]]]]

\* The value a tagged value stands for.
Untag(tv) ==
    IF tv.t = "array" THEN [i \in 1..Len(tv.v) |-> tv.v[i].v] ELSE tv.v

TypeOf(obj, key) ==
    IF Has(obj, key) THEN obj[key].t ELSE "undefined"

\* obj[key] read as a condition: undefined, false, 0 and "" are falsy, every
\* array is truthy.
TruthyRaw(obj, key) ==
    /\ Has(obj, key)
    /\ CASE obj[key].t = "boolean" -> obj[key].v
         [] obj[key].t = "number"  -> obj[key].v # 0
         [] obj[key].t = "string"  -> obj[key].v # <<>>
         [] OTHER                  -> TRUE

\* chrome.storage.sync.get(defaults): the stored value of every key of
\* defaults, the default where the key is not stored.
StorageGet(stored, defaults) ==
    [key \in DOMAIN defaults |->
        IF Has(stored, key) THEN stored[key] ELSE Tag(defaults)[key]]

\* .filter(keyword => typeof keyword === 'string' && keyword.trim().length > 0)
\* .map(keyword => keyword.trim().toLowerCase())
RECURSIVE SanitizeKeywords(_)
SanitizeKeywords(tvs) ==
    IF tvs = <<>>
    THEN <<>>
    ELSE (IF tvs[1].t = "string" /\ Len(trim(tvs[1].v)) > 0
          THEN <<toLowerCase(trim(tvs[1].v))>>
          ELSE <<>>) \o SanitizeKeywords(Tail(tvs))

validateAndSanitizeSettings(settings) ==
    LET D == DEFAULT_FILTER_SETTINGS
        bool(key) == IF TypeOf(settings, key) = "boolean" THEN settings[key].v ELSE D[key]
        num(key)  == IF TypeOf(settings, key) = "number" /\ settings[key].v >= 0
                     THEN settings[key].v
                     ELSE D[key]
        maxAge    == IF /\ TypeOf(settings, "maxAge") = "number"
                        /\ settings.maxAge.v >= 0
                        /\ settings.maxAge.v <= 20
                     THEN settings.maxAge.v
                     ELSE D.maxAge
        banned    == IF TypeOf(settings, "bannedKeywords") = "array"
                     THEN SanitizeKeywords(settings.bannedKeywords.v)
                     ELSE D.bannedKeywords
    IN  [viewsFilterEnabled    |-> bool("viewsFilterEnabled"),
         durationFilterEnabled |-> bool("durationFilterEnabled"),
         keywordFilterEnabled  |-> bool("keywordFilterEnabled"),
         ageFilterEnabled      |-> bool("ageFilterEnabled"),
         minViews              |-> num("minViews"),
         minDuration           |-> num("minDuration"),
         maxDuration           |-> num("maxDuration"),
         \* Legacy settings compatibility
         maxAge                |-> IF /\ TruthyRaw(settings, "maxAgeYears")
                                      /\ ~TruthyRaw(settings, "maxAge")
                                   THEN Untag(settings.maxAgeYears)
                                   ELSE maxAge,
         bannedKeywords        |-> IF /\ TruthyRaw(settings, "keywords")
                                      /\ ~TruthyRaw(settings, "bannedKeywords")
                                   THEN Untag(settings.keywords)
                                   ELSE banned]

\* loadSettings: chrome.storage.sync.get(DEFAULT_FILTER_SETTINGS), validated.
loadSettings(stored) ==
    validateAndSanitizeSettings(StorageGet(stored, DEFAULT_FILTER_SETTINGS))

\* saveSettings: chrome.storage.sync.set(validateAndSanitizeSettings(settings)).
\* The keys of the items are overwritten.
saveSettings(stored, settings) ==
    LET items == Tag(validateAndSanitizeSettings(Tag(settings)))
    IN  [key \in DOMAIN stored \cup DOMAIN items |->
            IF Has(items, key) THEN items[key] ELSE stored[key]]

\* content.js init: chrome.storage.sync.get(DEFAULT_SETTINGS, ...) and
\* filterSettings = settings, unvalidated.
content_loadSettings(stored) ==
    LET got == StorageGet(stored, DEFAULT_SETTINGS)
    IN  [key \in DOMAIN got |-> Untag(got[key])]

(***************************************************************************)
(* Video cards and extraction (src/src/core/extractor.js, and the same     *)
(* code in content.js lines 91-198)                                        *)
(*                                                                         *)
(* A card is one ytd-video-renderer / ytd-rich-item-renderer /             *)
(* ytd-grid-video-renderer element. Of its subtree it carries the text of  *)
(* the title element the selector chain finds (title), the texts of the    *)
(* elements the duration selectors find, in selector order (badges), the   *)
(* innerText of its thumbnail link (thumbText) and its own innerText. Its  *)
(* attributes: filtered (data-filtered is set), reason (the value of       *)
(* data-filter-reason, "" when unset) and display (style.display).         *)
(* counted is not part of the page: it counts how often the card was added *)
(* to a statistics total.                                                  *)
(***************************************************************************)

NewCard(content) ==
    [title     |-> content.title,
     badges    |-> content.badges,
     thumbText |-> content.thumbText,
     innerText |-> content.innerText,
     filtered  |-> FALSE,
     reason    |-> "",
     display   |-> "",
     counted   |-> 0,
     \* which DOM read of extractVideoData raises an error on this card:
     \* 0 none, 1 the title's, 2 the duration's, 3 the view count's, 4 the
     \* publish time's
     raises    |-> 0]

\* second|minute|hour|day|week|month|year
TimeUnits ==
    << <<"s", "e", "c", "o", "n", "d">>, <<"m", "i", "n", "u", "t", "e">>,
       <<"h", "o", "u", "r">>, <<"d", "a", "y">>, <<"w", "e", "e", "k">>,
       <<"m", "o", "n", "t", "h">>, <<"y", "e", "a", "r">> >>

\* /^\d+:\d+/ matches text
IsTimeStamp(text) ==
    /\ text # Null
    /\ LET e == DigitRunEnd(text, 1)
       IN  e > 1 /\ e + 1 <= Len(text) /\ text[e] = ":" /\ IsDigit(text[e + 1])

\* /\d+:\d+/ at index i of s: the index after the match, 0 when there is none.
TimeStampEnd(s, i) ==
    IF ~IsDigit(s[i])
    THEN 0
    ELSE LET e == DigitRunEnd(s, i)
         IN  IF e + 1 <= Len(s) /\ s[e] = ":" /\ IsDigit(s[e + 1])
             THEN DigitRunEnd(s, e + 1)
             ELSE 0

\* (?:\.\d+)? at index e1 of s: the index after it.
DecimalsEnd(s, e1) ==
    IF e1 + 1 <= Len(s) /\ s[e1] = "." /\ IsDigit(s[e1 + 1])
    THEN DigitRunEnd(s, e1 + 1)
    ELSE e1

\* [KMB]? (with the i flag) at index e2 of s: the index after it.
SuffixEnd(s, e2) ==
    IF e2 <= Len(s) /\ s[e2] \in {"K", "M", "B", "k", "m", "b"}
    THEN e2 + 1
    ELSE e2

\* views? at index j of s: the index after it, 0 when it is not there.
ViewWordEnd(s, j) ==
    IF MatchesAtI(s, j, Text.view)
    THEN (IF MatchesAtI(s, j + 4, <<"s">>) THEN j + 5 ELSE j + 4)
    ELSE 0

\* /(\d+(?:\.\d+)?[KMB]?)\s*views?/i at index i of s: the index after the
\* match, 0 when there is none.
ViewMatchEnd(s, i) ==
    IF ~IsDigit(s[i])
    THEN 0
    ELSE ViewWordEnd(s, SpaceRunEnd(s, SuffixEnd(s, DecimalsEnd(s, DigitRunEnd(s, i)))))

\* (second|minute|hour|day|week|month|year) at index j of s: the index after
\* it, 0 when none of them is there.
UnitEnd(s, j) ==
    IF \E u \in 1..Len(TimeUnits) : MatchesAtI(s, j, TimeUnits[u])
    THEN j + Len(TimeUnits[Leftmost({u \in 1..Len(TimeUnits) :
                                        MatchesAtI(s, j, TimeUnits[u])})])
    ELSE 0

\* s?\s*ago at index e of s, e = 0 meaning that no unit was found: the index
\* after ago, 0 when it is not there.
AgoAfterUnit(s, e) ==
    IF e = 0
    THEN 0
    ELSE IF MatchesAtI(s, SpaceRunEnd(s, IF MatchesAtI(s, e, <<"s">>) THEN e + 1 ELSE e),
                       Text.ago)
         THEN SpaceRunEnd(s, IF MatchesAtI(s, e, <<"s">>) THEN e + 1 ELSE e) + Len(Text.ago)
         ELSE 0

\* /(\d+)\s*(second|minute|hour|day|week|month|year)s?\s*ago/i at index i of
\* s: the index after the match, 0 when there is none.
AgoMatchEnd(s, i) ==
    IF ~IsDigit(s[i])
    THEN 0
    ELSE AgoAfterUnit(s, UnitEnd(s, SpaceRunEnd(s, DigitRunEnd(s, i))))

\* The index after the match of one of the three regular expressions at index
\* i of s, 0 when it does not match there.
MatchEnd(re, s, i) ==
    CASE re = "views" -> ViewMatchEnd(s, i)
      [] re = "ago"   -> AgoMatchEnd(s, i)
      [] re = "time"  -> TimeStampEnd(s, i)

\* The text of the match that starts at index i of s, Null when i = 0.
MatchFrom(s, re, i) ==
    IF i = 0
    THEN Null
    ELSE SubSeq(s, i, MatchEnd(re, s, i) - 1)

\* s.match(re)[0]: the leftmost match, Null when there is none.
FirstMatch(s, re) ==
    MatchFrom(s, re, Leftmost({i \in 1..Len(s) : MatchEnd(re, s, i) > 0}))

\* /streamed\s+(\d+\s*(?:second|...|year)s?\s*ago)/i matches at index i of s.
StreamedMatchAt(s, i) ==
    /\ MatchesAtI(s, i, Text.streamed)
    /\ SpaceRunEnd(s, i + Len(Text.streamed)) > i + Len(Text.streamed)
    /\ SpaceRunEnd(s, i + Len(Text.streamed)) <= Len(s)
    /\ AgoMatchEnd(s, SpaceRunEnd(s, i + Len(Text.streamed))) > 0

\* Group 1 of the match of the streamed expression that starts at index i of
\* s, Null when i = 0.
StreamedGroup(s, i) ==
    IF i = 0
    THEN Null
    ELSE MatchFrom(s, "ago", SpaceRunEnd(s, i + Len(Text.streamed)))

\* The loop over durationSelectors: the first text that starts like a time,
\* Null when there is none.
DurationFromBadges(badges) ==
    IF \A i \in 1..Len(badges) : ~IsTimeStamp(trim(badges[i]))
    THEN Null
    ELSE trim(badges[Leftmost({i \in 1..Len(badges) : IsTimeStamp(trim(badges[i]))})])

\* data.duration: the badge text, else the time in the thumbnail's text.
extractDuration(videoElement, badge) ==
    IF badge # Null
    THEN badge
    ELSE IF videoElement.thumbText # Null
         THEN FirstMatch(trim(videoElement.thumbText), "time")
         ELSE Null

\* data.viewCount: the match of the views expression, else "No views".
extractViewCount(fullText, viewMatch) ==
    IF viewMatch # Null
    THEN viewMatch
    ELSE IF \E i \in 1..Len(fullText) : MatchesAtI(fullText, i, Text.No_view)
         THEN Text.No_views
         ELSE Null

\* data.publishTime: the match of the ago expression, else of the streamed one.
extractPublishTime(fullText, timeMatch) ==
    IF timeMatch # Null
    THEN timeMatch
    \* fullText.match(/streamed\s+(...ago)/i), group 1 (Null: no match)
    ELSE StreamedGroup(fullText,
                       Leftmost({i \in 1..Len(fullText) : StreamedMatchAt(fullText, i)}))

\* extractVideoData(videoElement), data.videoId left out: no filter reads it.
\* The fields are assigned in this order inside one try block, so an error
\* leaves the field it is raised for and every later field at null.
extractVideoData(videoElement) ==
    [title       |-> IF videoElement.raises \in 1..1
                     THEN Null
                     ELSE videoElement.title,
     duration    |-> IF videoElement.raises \in 1..2
                     THEN Null
                     ELSE extractDuration(videoElement,
                                          DurationFromBadges(videoElement.badges)),
     viewCount   |-> IF videoElement.raises \in 1..3
                     THEN Null
                     ELSE extractViewCount(videoElement.innerText,
                                           FirstMatch(videoElement.innerText, "views")),
     publishTime |-> IF videoElement.raises \in 1..4
                     THEN Null
                     ELSE extractPublishTime(videoElement.innerText,
                                             FirstMatch(videoElement.innerText, "ago"))]

(***************************************************************************)
(* DOM manager (src/src/content/dom-manager.js)                            *)
(***************************************************************************)

\* A variant of hasDataFiltered for which every card counts as tagged.
hasDataFiltered_always(videoElement) ==
    TRUE

\* A variant of hasDataFiltered that skips no card.
hasDataFiltered_never(videoElement) ==
    FALSE

\* videoElement.hasAttribute("data-filtered"), the skip test of runFilters
hasDataFiltered(videoElement) ==
    videoElement.filtered

\* The same test in runAllFilters of content.js.
content_hasDataFiltered(videoElement) ==
    videoElement.filtered

\* A variant of hideVideoElement that sets no data-filtered attribute.
hideVideoElement_untagged(videoElement, reason) ==
    [videoElement EXCEPT !.display = "none"]

hideVideoElement(videoElement, reason) ==
    [videoElement EXCEPT !.display = "none", !.filtered = TRUE, !.reason = reason]

\* The three statements that hide and tag a card in runAllFilters.
content_hideVideoElement(videoElement, reason) ==
    [videoElement EXCEPT !.display = "none", !.filtered = TRUE, !.reason = reason]

(***************************************************************************)
(* The scan loops                                                          *)
(***************************************************************************)

\* currentRunStats[key]++
Increment(runStats, key) ==
    IF key \in {"views", "keywords", "duration", "age", "total"}
    THEN [runStats EXCEPT ![key] = @ + 1]
    ELSE [runStats EXCEPT !.nan = @ \cup {key}]

\* What the forEach loop has done so far.
LoopStart(videoCards) ==
    [cards                |-> videoCards,
     currentRunStats      |-> [views |-> 0, keywords |-> 0, duration |-> 0, age |-> 0, total |-> 0, nan |-> {}],
     newFilters           |-> FALSE,
     processedCount       |-> 0,
     alreadyFilteredCount |-> 0,
     stored               |-> <<>>,
     evaluated            |-> {},
     hidden               |-> {}]

\* The statements of the loop body of YouTubeFilterEngine.runFilters that follow the extraction:
\* count the card as processed and, if a filter triggered, hide and tag it,
\* count it under the filter's reason and in the total, and store it.
runFilters_handleResult(acc, i, title, filterResult) ==
    IF filterResult # NoDecision
    THEN [acc EXCEPT
            !.processedCount = @ + 1,
            !.evaluated = @ \cup {i},
            !.cards[i] = [hideVideoElement(@, filterResult.reason) EXCEPT !.counted = @ + 1],
            !.currentRunStats = Increment(Increment(@, filterResult.reason), "total"),
            !.newFilters = TRUE,
            !.stored = Append(@, [title |-> title, reason |-> filterResult.details,
                               phase |-> "get", videos |-> <<>>]),
            !.hidden = @ \cup {i}]
    ELSE [acc EXCEPT !.processedCount = @ + 1, !.evaluated = @ \cup {i}]

\* videoCards.forEach(...) of YouTubeFilterEngine.runFilters, from card i on.
RECURSIVE runFilters_forEach(_, _, _)
runFilters_forEach(acc, i, settings) ==
    IF i > Len(acc.cards)
    THEN acc
    ELSE IF hasDataFiltered(acc.cards[i])
         THEN runFilters_forEach([acc EXCEPT !.alreadyFilteredCount = @ + 1], i + 1, settings)
         ELSE runFilters_forEach(
                     LET videoData == extractVideoData(acc.cards[i])
                     IN  runFilters_handleResult(acc, i, (IF Falsy(videoData.title)
                          THEN <<"U", "n", "k", "n", "o", "w", "n", " ", "t", "i", "t", "l", "e">>
                          ELSE videoData.title),
                                                 applyAllFilters(videoData, settings)),
                     i + 1, settings)

\* The statements of the loop body of runAllFilters in content.js that follow the extraction:
\* count the card as processed and, if a filter triggered, hide and tag it,
\* count it under the filter's reason and in the total, and store it.
content_handleResult(acc, i, title, triggeredFilter) ==
    IF triggeredFilter # NoDecision
    THEN [acc EXCEPT
            !.processedCount = @ + 1,
            !.evaluated = @ \cup {i},
            !.cards[i] = [content_hideVideoElement(@, triggeredFilter.reason) EXCEPT !.counted = @ + 1],
            !.currentRunStats = Increment(Increment(@, triggeredFilter.reason), "total"),
            !.newFilters = TRUE,
            !.stored = Append(@, [title |-> title, reason |-> triggeredFilter.details,
                               phase |-> "get", videos |-> <<>>]),
            !.hidden = @ \cup {i}]
    ELSE [acc EXCEPT !.processedCount = @ + 1, !.evaluated = @ \cup {i}]

\* videoCards.forEach(...) of runAllFilters in content.js, from card i on.
RECURSIVE content_forEach(_, _, _)
content_forEach(acc, i, settings) ==
    IF i > Len(acc.cards)
    THEN acc
    ELSE IF content_hasDataFiltered(acc.cards[i])
         THEN content_forEach([acc EXCEPT !.alreadyFilteredCount = @ + 1], i + 1, settings)
         ELSE content_forEach(
                     LET videoData == extractVideoData(acc.cards[i])
                     IN  content_handleResult(acc, i, (IF Falsy(videoData.title)
                          THEN <<"U", "n", "k", "n", "o", "w", "n", " ", "t", "i", "t", "l", "e">>
                          ELSE videoData.title),
                                              content_triggeredFilter(videoData, settings)),
                     i + 1, settings)

\* [viewsFilterEnabled, durationFilterEnabled, keywordFilterEnabled,
\*  ageFilterEnabled].some(enabled => enabled) in runFilters
hasEnabledFilters(settings) ==
    \/ Truthy(settings, "viewsFilterEnabled")
    \/ Truthy(settings, "durationFilterEnabled")
    \/ Truthy(settings, "keywordFilterEnabled")
    \/ Truthy(settings, "ageFilterEnabled")

\* The negation of the first test of runAllFilters, which reads
\* keywordsFilterEnabled.
content_hasEnabledFilters(settings) ==
    \/ Truthy(settings, "viewsFilterEnabled")
    \/ Truthy(settings, "durationFilterEnabled")
    \/ Truthy(settings, "keywordsFilterEnabled")
    \/ Truthy(settings, "ageFilterEnabled")

(***************************************************************************)
(* The content script as a state machine                                   *)
(***************************************************************************)

VARIABLES
    impl,          \* which content script runs: "engine" (modular) or "content"
    isInitialized, \* engine: this.isInitialized; content.js: the storage
                   \* callback of init() has run
    settings,      \* this.settings / filterSettings
    stats,         \* this.stats / filterStats
    cards,         \* the video cards of the page, in document order
    syncStorage,   \* chrome.storage.sync, a raw object
    storedStats,   \* chrome.storage.local filterStats
    storedVideos,  \* chrome.storage.local filteredVideos
    inflight,      \* the history appends whose storage calls are not finished
    saveWaiting,   \* updateSettings waits for saveSettings to resolve
    quiescent,     \* a scan was called and nothing was inserted or updated since
    lastScan,      \* what the latest call of the scan did
    videoData,     \* FilterSpec: the record the predicates are applied to
    evalSettings,  \* FilterSpec: the settings they are applied with
    evalResult,    \* FilterSpec: what they returned
    pushed,        \* the settings object of the latest updateSettings call
    loading,       \* initialize waits for loadSettings: what the storage read returns
    filterTimeout, \* content observer: ms until its timer is due (NoTimeout: none)
    scrollTimeout, \* scroll listener: ms until its timer is due
    navTimeouts,   \* navigation observer: ms until each of its timers is due
    initTimeout,   \* ms until the timer of the initial filter pass is due
    lastVideoCount,\* scroll listener: lastVideoCount
    lastUrl,       \* navigation observer: lastUrl
    sinceSlot,     \* ms since the host page last had the chance to act
    sinceBatch,    \* ms since the latest batch with a card, up to the delay
    burst,         \* batches with a card since the content observer's timer was
                   \* last idle: 0, 1, or 2 for two or more
    lastChecked,   \* the card count the latest scroll check saw
    event,         \* what the latest step of a trigger did
    observing,     \* the observers and the scroll listener are registered
    destroyed,     \* destroy() was called after the latest call of initialize()
    lastError,     \* chrome.storage.local.set fails: chrome.runtime.lastError is set
    otherStats,    \* the statistics in the memory of another tab's content script
    walk           \* popup.js extractFromYTInitialData: the object it walks, the
                   \* calls of traverseData that have not returned, and
                   \* videoDataMap

vars ==
    <<impl, isInitialized, settings, stats, cards, syncStorage, storedStats,
      storedVideos, inflight, saveWaiting, quiescent, lastScan,
      videoData, evalSettings, evalResult, pushed, loading,
      filterTimeout, scrollTimeout, navTimeouts, initTimeout, lastVideoCount,
      lastUrl, sinceSlot, sinceBatch, burst, lastChecked, event,
      observing, destroyed, lastError, otherStats, walk>>

pageVars ==
    <<impl, isInitialized, settings, stats, cards, syncStorage, storedStats,
      storedVideos, inflight, saveWaiting, quiescent, lastScan>>

filterVars ==
    <<videoData, evalSettings, evalResult, walk>>

triggerVars ==
    <<filterTimeout, scrollTimeout, navTimeouts, initTimeout, lastVideoCount,
      lastUrl, sinceSlot, sinceBatch, burst, lastChecked, event,
      observing, destroyed, lastError, otherStats>>

\* The most cards the page holds.
MaxCards ==
    2

\* if (videos.length > 100) videos.shift()
HistoryCap ==
    100

\* this.settings = null, this.stats = null
NoSettings ==
    [isNull |-> TRUE]

NoStats ==
    [isNull |-> TRUE]

\* The innerText of a card that shows these lines (Null: the line is absent).
RECURSIVE Lines(_)
Lines(texts) ==
    IF texts = <<>>
    THEN <<>>
    ELSE IF texts[1] = Null
         THEN Lines(Tail(texts))
         ELSE LET rest == Lines(Tail(texts))
              IN  IF rest = <<>> THEN texts[1] ELSE texts[1] \o <<"\n">> \o rest

\* A card with a title element, a duration badge and a metadata line.
CardContent(title, badge, views, age) ==
    [title     |-> title,
     badges    |-> IF badge = Null THEN <<>> ELSE <<badge>>,
     thumbText |-> badge,
     innerText |-> Lines(<<title, badge, views, age>>)]

\* What the popup has saved (setting.js keys), by its four check boxes.
PopupSettings(v, d, k, a) ==
    Tag([DEFAULT_SETTINGS EXCEPT !.viewsFilterEnabled = v,
                                 !.durationFilterEnabled = d,
                                 !.keywordFilterEnabled = k,
                                 !.ageFilterEnabled = a])

\* The settings objects of settingsUpdated messages.
UpdateInputs ==
    {Tag(DEFAULT_FILTER_SETTINGS),
     Tag([DEFAULT_FILTER_SETTINGS EXCEPT !.viewsFilterEnabled = FALSE,
                                         !.durationFilterEnabled = FALSE,
                                         !.keywordFilterEnabled = FALSE,
                                         !.ageFilterEnabled = FALSE]),
     Tag([DEFAULT_FILTER_SETTINGS EXCEPT !.minViews = 0,
                                         !.maxAge = 10,
                                         !.bannedKeywords = <<>>])}

\* The delays of the timers, in ms.
MutationDelay ==
    800

ScrollDelay ==
    1000

NavigationDelay ==
    1500

InitialDelay ==
    1000

\* clearTimeout / no timer set: let filterTimeout = null
NoTimeout ==
    0 - 1

\* No trigger has been set up and none has acted.
IdleTriggerVars ==
    /\ filterTimeout = NoTimeout
    /\ scrollTimeout = NoTimeout
    /\ navTimeouts = <<>>
    /\ initTimeout = NoTimeout
    /\ lastVideoCount = 0
    /\ lastUrl = 0
    /\ sinceSlot = 0
    /\ sinceBatch = 0
    /\ burst = 0
    /\ lastChecked = 0
    /\ event = [type |-> "none"]
    /\ observing = FALSE
    /\ destroyed = FALSE
    /\ lastError = FALSE
    /\ otherStats = NoStats

Init ==
    /\ impl \in {"engine", "content"}
    /\ isInitialized = FALSE
    /\ settings = IF impl = "engine" THEN NoSettings ELSE DEFAULT_SETTINGS
    /\ stats = IF impl = "engine" THEN NoStats ELSE DEFAULT_STATS
    /\ cards = <<>>
    \* chrome.storage.sync when the content script starts: nothing stored, or
    \* what the popup saved
    /\ syncStorage \in
           {<<>>,
            PopupSettings(TRUE, TRUE, TRUE, TRUE),
            PopupSettings(FALSE, FALSE, TRUE, TRUE),
            PopupSettings(FALSE, FALSE, FALSE, FALSE)}
    /\ storedStats = DEFAULT_STATS
    /\ storedVideos \in
           {<<>>,
            [n \in 1..(HistoryCap - 1) |->
                [title  |-> <<DigitChars[(n \div 10) + 1], DigitChars[(n % 10) + 1]>>,
                 reason |-> <<"Low views", Text.views_6K>>]]}
    /\ inflight = <<>>
    /\ saveWaiting = FALSE
    /\ quiescent = FALSE
    /\ lastScan = [called |-> FALSE]
    /\ videoData = [title |-> Null, viewCount |-> Null, duration |-> Null,
                    publishTime |-> Null]
    /\ evalSettings = DEFAULT_FILTER_SETTINGS
    /\ evalResult = [done |-> FALSE]
    /\ walk = [result |-> "none"]
    /\ pushed = NoSettings
    /\ loading = <<>>
    /\ IdleTriggerVars

\* YouTubeFilterEngine.initialize up to await loadSettings(): the storage read
\* is issued and will return what is stored now.
Initialize ==
    /\ impl = "engine"
    /\ ~isInitialized
    /\ loading = <<>>
    \* the host does not call initialize() again after destroy()
    /\ ~destroyed
    /\ loading' = <<syncStorage>>
    /\ UNCHANGED <<impl, isInitialized, settings, stats, cards, syncStorage,
                   storedStats, storedVideos, inflight, saveWaiting, quiescent,
                   lastScan>>
    /\ UNCHANGED <<filterVars, pushed, triggerVars>>

\* The storage read has returned: this.settings = the loaded settings,
\* this.stats = loadStats(), isInitialized = true.
SettingsLoaded ==
    /\ impl = "engine"
    /\ loading # <<>>
    /\ settings' = loadSettings(loading[1])
    /\ stats' = storedStats
    /\ isInitialized' = TRUE
    /\ quiescent' = FALSE
    /\ loading' = <<>>
    \* this.setupObservers()
    /\ observing' = TRUE
    \* initializeYouTubeFilters goes on after await filterEngine.initialize():
    \* the timer of the initial pass
    /\ initTimeout' = InitialDelay
    /\ UNCHANGED <<impl, cards, syncStorage, storedStats, storedVideos, inflight,
                   saveWaiting, lastScan>>
    /\ UNCHANGED <<filterVars, pushed>>
    /\ UNCHANGED <<filterTimeout, scrollTimeout, navTimeouts,
                   lastVideoCount, lastUrl, sinceSlot, sinceBatch, burst,
                   lastChecked, event, destroyed, lastError, otherStats>>

\* The storage callback of init() in content.js: filterSettings = settings.
content_init ==
    /\ impl = "content"
    /\ ~isInitialized
    /\ settings' = content_loadSettings(syncStorage)
    /\ isInitialized' = TRUE
    /\ quiescent' = FALSE
    \* setTimeout(() => runAllFilters(), 1000)
    /\ initTimeout' = InitialDelay
    \* new MutationObserver(...).observe(contentRoot, ...)
    /\ observing' = TRUE
    /\ UNCHANGED <<impl, stats, cards, syncStorage, storedStats, storedVideos,
                   inflight, saveWaiting, lastScan>>
    /\ UNCHANGED <<filterVars, pushed, loading>>
    /\ UNCHANGED <<filterTimeout, scrollTimeout, navTimeouts,
                   lastVideoCount, lastUrl, sinceSlot, sinceBatch, burst,
                   lastChecked, event, destroyed, lastError, otherStats>>

\* The host page appends a card.
InsertCard(content) ==
    /\ Len(cards) < MaxCards
    /\ cards' = Append(cards, NewCard(content))
    /\ quiescent' = FALSE
    /\ UNCHANGED <<impl, isInitialized, settings, stats, syncStorage, storedStats,
                   storedVideos, inflight, saveWaiting, lastScan>>
    /\ UNCHANGED <<filterVars, pushed, loading, triggerVars>>

\* A call of the scan that returned before the loop.
ReturnedEarly ==
    /\ lastScan' = [called |-> TRUE, ran |-> FALSE, repeat |-> quiescent,
                    \* the four filter-enabled flags are all false
                    allOff |-> \A key \in {"viewsFilterEnabled",
                                            "durationFilterEnabled",
                                            "keywordFilterEnabled",
                                            "ageFilterEnabled"} :
                                   key \in DOMAIN settings /\ settings[key] = FALSE,
                    settings |-> settings,
                    skipped |-> {i \in 1..Len(cards) : cards[i].filtered},
                    evaluated |-> {}, hidden |-> {}, changed |-> {},
                    delta |-> [views |-> 0, keywords |-> 0, duration |-> 0, age |-> 0,
                              total |-> 0, nan |-> {}],
                    statsChanged |-> FALSE,
                    saves |-> 0, appends |-> 0]
    /\ UNCHANGED <<cards, stats, storedStats, inflight>>

\* A call of the scan whose loop ended with acc.
RanLoop(acc) ==
    /\ cards' = acc.cards
    /\ stats' = IF acc.newFilters
                THEN [key \in {"views", "keywords", "duration", "age", "total"} |-> stats[key] + acc.currentRunStats[key]]
                ELSE stats
    \* saveStats(this.stats) / chrome.storage.local.set({ filterStats }); a
    \* write that fails stores nothing and is logged
    /\ storedStats' = IF acc.newFilters /\ ~lastError THEN stats' ELSE storedStats
    /\ inflight' = inflight \o acc.stored
    /\ lastScan' = [called |-> TRUE, ran |-> TRUE, repeat |-> quiescent,
                    \* the four filter-enabled flags are all false
                    allOff |-> \A key \in {"viewsFilterEnabled",
                                            "durationFilterEnabled",
                                            "keywordFilterEnabled",
                                            "ageFilterEnabled"} :
                                   key \in DOMAIN settings /\ settings[key] = FALSE,
                    settings |-> settings,
                    skipped |-> {i \in 1..Len(cards) : cards[i].filtered},
                    evaluated |-> acc.evaluated, hidden |-> acc.hidden,
                    changed |-> {i \in 1..Len(cards) : acc.cards[i] # cards[i]},
                    delta |-> acc.currentRunStats,
                    statsChanged |-> stats' # stats,
                    saves |-> IF acc.newFilters THEN 1 ELSE 0,
                    appends |-> Len(acc.stored)]

\* The body of YouTubeFilterEngine.runFilters.
runFilters ==
    IF ~isInitialized \/ settings = NoSettings
    THEN ReturnedEarly
    ELSE IF ~hasEnabledFilters(settings)
         THEN ReturnedEarly
         ELSE RanLoop(runFilters_forEach(LoopStart(cards), 1, settings))

\* The body of runAllFilters in content.js.
runAllFilters ==
    IF ~content_hasEnabledFilters(settings)
    THEN ReturnedEarly
    ELSE RanLoop(content_forEach(LoopStart(cards), 1, settings))

\* One of the callers of runFilters calls it: the initial timer, the content
\* observer, the scroll listener or the navigation observer.
RunFilters ==
    /\ impl = "engine"
    /\ runFilters
    /\ quiescent' = TRUE
    /\ UNCHANGED <<impl, isInitialized, settings, syncStorage, storedVideos, saveWaiting>>
    /\ UNCHANGED <<filterVars, pushed, loading, triggerVars>>

\* One of the callers of runAllFilters calls it. The navigation observer and
\* the scroll listener are set up before the settings are loaded.
RunAllFilters ==
    /\ impl = "content"
    /\ runAllFilters
    /\ quiescent' = TRUE
    /\ UNCHANGED <<impl, isInitialized, settings, syncStorage, storedVideos, saveWaiting>>
    /\ UNCHANGED <<filterVars, pushed, loading, triggerVars>>

\* YouTubeFilterEngine.updateSettings(newSettings), up to the storage write
\* that saveSettings issues.
UpdateSettings(newSettings) ==
    /\ impl = "engine"
    /\ ~saveWaiting
    /\ settings' = validateAndSanitizeSettings(newSettings)
    /\ syncStorage' = saveSettings(syncStorage, settings')
    /\ saveWaiting' = TRUE
    /\ quiescent' = FALSE
    /\ UNCHANGED <<impl, isInitialized, stats, cards, storedStats, storedVideos,
                   inflight, lastScan>>
    /\ UNCHANGED <<filterVars, loading, triggerVars>>
    /\ pushed' = newSettings

\* saveSettings has resolved: updateSettings goes on with this.runFilters().
SettingsSaved ==
    /\ impl = "engine"
    /\ saveWaiting
    /\ saveWaiting' = FALSE
    /\ runFilters
    /\ quiescent' = TRUE
    /\ UNCHANGED <<impl, isInitialized, settings, syncStorage, storedVideos>>
    /\ UNCHANGED <<filterVars, pushed, loading, triggerVars>>

\* A variant of KeepLast that drops the entry just pushed.
KeepLast_dropNewest(videos) ==
    IF Len(videos) > HistoryCap THEN SubSeq(videos, 1, Len(videos) - 1) ELSE videos

\* if (videos.length > 100) videos.shift()
KeepLast(videos) ==
    IF Len(videos) > HistoryCap THEN Tail(videos) ELSE videos

\* The storage read of addFilteredVideo / storeFilteredVideo has answered:
\* push the entry, drop the oldest one over the cap, issue the write.
\* (The timestamp of an entry is left out.)
HistoryRead(k) ==
    /\ k \in 1..Len(inflight)
    /\ inflight[k].phase = "get"
    /\ inflight' =
           [inflight EXCEPT
               ![k] = [@ EXCEPT
                          !.phase = "set",
                          !.videos =
                              KeepLast(Append(storedVideos,
                                              [title  |-> inflight[k].title,
                                               reason |-> inflight[k].reason]))]]
    /\ UNCHANGED <<impl, isInitialized, settings, stats, cards, syncStorage,
                   storedStats, storedVideos, saveWaiting, quiescent, lastScan>>
    /\ UNCHANGED <<filterVars, pushed, loading, triggerVars>>

\* An append that starts again from its read when its write has failed.
HistoryWrite_retry(k) ==
    /\ k \in 1..Len(inflight)
    /\ inflight[k].phase = "set"
    /\ storedVideos' = IF lastError THEN storedVideos ELSE inflight[k].videos
    /\ inflight' = IF lastError
                   THEN [inflight EXCEPT ![k].phase = "get"]
                   ELSE SubSeq(inflight, 1, k - 1) \o SubSeq(inflight, k + 1, Len(inflight))
    /\ UNCHANGED <<impl, isInitialized, settings, stats, cards, syncStorage,
                   storedStats, saveWaiting, quiescent, lastScan>>
    /\ UNCHANGED <<filterVars, pushed, loading, triggerVars>>

\* chrome.storage.local.set({ filteredVideos: videos }) is done: the array is
\* stored, or the write has failed and the promise is rejected.
HistoryWrite(k) ==
    /\ k \in 1..Len(inflight)
    /\ inflight[k].phase = "set"
    /\ storedVideos' = IF lastError THEN storedVideos ELSE inflight[k].videos
    /\ inflight' = SubSeq(inflight, 1, k - 1) \o SubSeq(inflight, k + 1, Len(inflight))
    /\ UNCHANGED <<impl, isInitialized, settings, stats, cards, syncStorage,
                   storedStats, saveWaiting, quiescent, lastScan>>
    /\ UNCHANGED <<filterVars, pushed, loading, triggerVars>>

Next ==
    \/ Initialize
    \/ SettingsLoaded
    \/ content_init
    \/ \E content \in
           {CardContent(Text.Big_SPOILER, Text.at_12_05, Text.views_50K, Text.ago_2_years),
            CardContent(Text.Cat_video, Text.at_12_05, Text.views_6K, Text.ago_3_months),
            CardContent(Text.Cat_video, Text.at_12_05, Text.views_50K, Text.ago_3_months),
            CardContent(Text.Cat_video, Null, Null, Null),
            CardContent(Text.Cat_video, Text.at_12_05, Text.views_50K, Text.ago_7_years),
            CardContent(Text.Cat_video, Text.at_0_45, Text.views_50K, Text.ago_3_months)} :
           InsertCard(content)
    \/ RunFilters
    \/ RunAllFilters
    \/ \E newSettings \in UpdateInputs : UpdateSettings(newSettings)
    \/ SettingsSaved
    \/ \E k \in 1..MaxCards : HistoryRead(k)
    \/ \E k \in 1..MaxCards : HistoryWrite(k)

Spec ==
    Init /\ [][Next]_vars

(***************************************************************************)
(* The predicates, the orchestrators and the parsers applied to one record *)
(***************************************************************************)

\* The largest number of an age text.
MaxYears ==
    7

\* The decimal digits of n < 100.
ToDigits(n) ==
    IF n < 10
    THEN <<DigitChars[n + 1]>>
    ELSE <<DigitChars[(n \div 10) + 1], DigitChars[(n % 10) + 1]>>

\* The text YouTube shows for an age: "1 year ago", "3 months ago".
AgeText(n, unit) ==
    ToDigits(n) \o <<" ">> \o unit \o (IF n = 1 THEN <<>> ELSE <<"s">>) \o <<" ">> \o Text.ago

\* The records extractVideoData can return.
VideoDataInputs ==
    [title : {Null, Text.Ending_SPOILER_Discussion, Text.Cat_video},
     viewCount : {Null, Text.views_6K, Text.views_10K, Text.views_50K, Text.No_views},
     duration : {Null, Text.at_12_05, Text.at_0_45},
     publishTime : {Null, <<>>, AgeText(3, <<"m", "o", "n", "t", "h">>),
                    AgeText(5, <<"d", "a", "y">>)}
                   \cup {AgeText(n, Text.year) : n \in {1, 2, MaxYears}}]

\* A settings object as the predicates of either content script read it:
\* the keyword flag stands under the key each of them reads.
SettingsInput(v, d, a, k, minViews, maxAge, keywords) ==
    [viewsFilterEnabled    |-> v,
     durationFilterEnabled |-> d,
     ageFilterEnabled      |-> a,
     keywordFilterEnabled  |-> k,
     keywordsFilterEnabled |-> k,
     minViews              |-> minViews,
     minDuration           |-> 60,
     maxDuration           |-> 3600,
     maxAge                |-> maxAge,
     bannedKeywords        |-> keywords]

SettingsInputs ==
    {SettingsInput(TRUE, TRUE, TRUE, TRUE, 10000, 5, <<Text.spoiler, Text.clickbait, Text.sponsor>>),
     SettingsInput(TRUE, FALSE, FALSE, FALSE, 10000, 5, <<Text.spoiler>>),
     SettingsInput(TRUE, FALSE, FALSE, FALSE, 6000, 5, <<Text.spoiler>>),
     SettingsInput(FALSE, TRUE, FALSE, FALSE, 10000, 5, <<Text.spoiler>>),
     SettingsInput(FALSE, FALSE, TRUE, FALSE, 10000, 5, <<Text.spoiler>>),
     SettingsInput(FALSE, FALSE, TRUE, FALSE, 10000, 1, <<Text.spoiler>>),
     SettingsInput(FALSE, FALSE, FALSE, TRUE, 10000, 5, <<Text.spoiler>>),
     SettingsInput(FALSE, FALSE, FALSE, TRUE, 10000, 5, <<Text.END, Text.spoiler>>),
     SettingsInput(FALSE, FALSE, FALSE, TRUE, 10000, 5, <<<<>>, Text.video>>),
     SettingsInput(FALSE, FALSE, FALSE, FALSE, 10000, 5, <<Text.spoiler>>)}
    \* the duration filter with a bound of 0, and with bounds that the
    \* durations 0:45 and 12:05 are equal to
    \cup {[SettingsInput(FALSE, d, FALSE, FALSE, 10000, 5, <<Text.spoiler>>)
              EXCEPT !.minDuration = bounds[1], !.maxDuration = bounds[2]] :
             d \in BOOLEAN,
             bounds \in {<<0, 0>>, <<0, 600>>, <<0, 725>>, <<60, 0>>,
                         <<45, 0>>, <<45, 725>>}}

\* The page is left alone.
IdlePageVars ==
    /\ impl = "engine"
    /\ isInitialized = FALSE
    /\ settings = NoSettings
    /\ stats = NoStats
    /\ syncStorage = <<>>
    /\ storedStats = DEFAULT_STATS
    /\ storedVideos = <<>>
    /\ inflight = <<>>
    /\ saveWaiting = FALSE
    /\ quiescent = FALSE
    /\ lastScan = [called |-> FALSE]
    /\ pushed = NoSettings
    /\ loading = <<>>
    /\ IdleTriggerVars

\* Only the predicates are applied.
FilterInit ==
    /\ IdlePageVars
    /\ cards = <<>>
    /\ videoData \in VideoDataInputs
    /\ evalSettings \in SettingsInputs
    /\ evalResult = [done |-> FALSE]
    /\ walk = [result |-> "none"]

\* The predicates and the orchestrator of the modular filter module, and the
\* parsers, are applied to the record.
Evaluate ==
    /\ ~evalResult.done
    /\ evalResult' =
           [done       |-> TRUE,
            variant    |-> "engine",
            views      |-> checkViewsFilter(videoData, evalSettings),
            duration   |-> checkDurationFilter(videoData, evalSettings),
            age        |-> checkAgeFilter(videoData, evalSettings),
            keyword    |-> checkKeywordsFilter(videoData, evalSettings),
            decision   |-> applyAllFilters(videoData, evalSettings),
            parsedViews    |-> parseViewCount(videoData.viewCount),
            parsedDuration |-> parseDuration(videoData.duration),
            parsedAge      |-> parseVideoAge(videoData.publishTime)]
    /\ UNCHANGED <<videoData, evalSettings, walk>>
    /\ UNCHANGED <<pageVars, pushed, loading, triggerVars>>

\* The predicates and the filters array of content.js are applied to the record.
content_Evaluate ==
    /\ ~evalResult.done
    /\ evalResult' =
           [done       |-> TRUE,
            variant    |-> "content",
            views      |-> content_checkViewsFilter(videoData, evalSettings),
            duration   |-> content_checkDurationFilter(videoData, evalSettings),
            age        |-> content_checkAgeFilter(videoData, evalSettings),
            keyword    |-> content_checkKeywordsFilter(videoData, evalSettings),
            decision   |-> content_triggeredFilter(videoData, evalSettings),
            parsedViews    |-> parseViewCount(videoData.viewCount),
            parsedDuration |-> parseDuration(videoData.duration),
            parsedAge      |-> parseVideoAge(videoData.publishTime)]
    /\ UNCHANGED <<videoData, evalSettings, walk>>
    /\ UNCHANGED <<pageVars, pushed, loading, triggerVars>>

FilterNext ==
    \/ Evaluate
    \/ content_Evaluate

FilterSpec ==
    FilterInit /\ [][FilterNext]_vars

(***************************************************************************)
(* The parsers on their own: one text is given to parseDuration or to      *)
(* parseViewCount through the record the predicates read.                  *)
(***************************************************************************)

MaxPart ==
    2

\* The numbers whose texts stand between the colons.
PartNumbers ==
    (0..MaxPart) \cup {5, 12, 23, 45}

\* The ways a part of a duration is written: "5" and "05".
PartTexts(n) ==
    {ToDigits(n)} \cup (IF n < 10 THEN {<<"0">> \o ToDigits(n)} ELSE {})

\* "MM:SS" or "HH:MM:SS" of the texts of the parts.
ColonText(parts) ==
    IF Len(parts) = 2
    THEN parts[1] \o <<":">> \o parts[2]
    ELSE parts[1] \o <<":">> \o parts[2] \o <<":">> \o parts[3]

\* Colon-separated texts with the part b in the first, the last and the middle place.
WithPart(b) ==
    {ColonText(<<b, <<"1", "2">>>>), ColonText(<<<<"1", "2">>, b>>),
     ColonText(<<<<"1", "2">>, b, <<"1", "2">>>>)}

MaxWhole ==
    2

\* The parts of a view-count text: the whole part with its value, the decimals
\* (none, ".4", ".3", ".05"), the suffix in either letter case with its power
\* of ten, and what may follow (nothing, " view", " views").
ViewParts ==
    [wholes |->
         {[text |-> ToDigits(n), val |-> n] : n \in (0..MaxWhole) \cup {12}}
         \cup {[text |-> <<"1", ",", "2", "3", "4">>, val |-> 1234],
               [text |-> <<"1", ",", "2", "3", "4", ",", "5", "6", "7">>,
                val |-> 1234567]},
     decimals |->
         {[text |-> <<>>, val |-> 0, len |-> 0],
          [text |-> <<".", "4">>, val |-> 4, len |-> 1],
          [text |-> <<".", "3">>, val |-> 3, len |-> 1],
          [text |-> <<".", "0", "5">>, val |-> 5, len |-> 2]},
     suffixes |->
         {[text |-> <<>>, exp |-> 0],
          [text |-> <<"K">>, exp |-> 3], [text |-> <<"k">>, exp |-> 3],
          [text |-> <<"M">>, exp |-> 6], [text |-> <<"m">>, exp |-> 6],
          [text |-> <<"B">>, exp |-> 9], [text |-> <<"b">>, exp |-> 9]},
     tails |-> {<<>>, <<" ">> \o Text.view, <<" ">> \o Text.view \o <<"s">>}]

\* One text at a time.
ParserInit ==
    /\ IdlePageVars
    /\ cards = <<>>
    /\ videoData \in
           {[title |-> Null, viewCount |-> Null, duration |-> d, publishTime |-> Null] :
               d \in
                   {Null, <<>>}
                   \cup {ColonText(<<tm, ts>>) :
                            tm \in UNION {PartTexts(m) : m \in PartNumbers},
                            ts \in UNION {PartTexts(n) : n \in PartNumbers}}
                   \cup {ColonText(<<th, tm, ts>>) :
                            th \in UNION {PartTexts(h) : h \in PartNumbers},
                            tm \in UNION {PartTexts(m) : m \in PartNumbers},
                            ts \in UNION {PartTexts(n) : n \in PartNumbers}}
                   \cup UNION {WithPart(b) : b \in {<<>>, Text.ab, Text.x5, Text.five_x}}}
           \cup {[title |-> Null, viewCount |-> v, duration |-> Null, publishTime |-> Null] :
                    v \in
                        {Null, <<>>, Text.No_views, Text.abc, Text.dot, Text.N_A}
                        \cup {w.text \o d.text \o x.text \o tail :
                                 w \in ViewParts.wholes, d \in ViewParts.decimals,
                                 x \in ViewParts.suffixes, tail \in ViewParts.tails}}
    /\ evalSettings = SettingsInput(TRUE, TRUE, FALSE, FALSE, 10000, 5, <<>>)
    /\ evalResult = [done |-> FALSE]
    /\ walk = [result |-> "none"]

ParserSpec ==
    ParserInit /\ [][FilterNext]_vars

(***************************************************************************)
(* Extraction followed by the predicates, on one card                      *)
(***************************************************************************)

\* A card, with or without a DOM read that raises an error, and settings
\* with the views filter, with minViews = 0, or with every filter enabled.
ExtractInit ==
    /\ IdlePageVars
    /\ \E views \in {Text.views_6K, Text.views_50K, Text.No_views,
                     Text.views_1_234_567},
          raises \in 0..4 :
          cards = <<[NewCard(CardContent(Text.Cat_video, Text.at_12_05, views,
                                         Text.ago_3_months))
                        EXCEPT !.raises = raises]>>
    /\ videoData = [title |-> Null, viewCount |-> Null, duration |-> Null,
                    publishTime |-> Null]
    /\ evalSettings \in
           {SettingsInput(TRUE, FALSE, FALSE, FALSE, 10000, 5, <<Text.spoiler>>),
            SettingsInput(TRUE, FALSE, FALSE, FALSE, 0, 5, <<Text.spoiler>>),
            SettingsInput(TRUE, TRUE, TRUE, TRUE, 10000, 5, <<Text.spoiler>>)}
    /\ evalResult = [done |-> TRUE, extracted |-> FALSE]
    /\ walk = [result |-> "none"]

\* const videoData = extractVideoData(videoElement)
Extract ==
    /\ evalResult = [done |-> TRUE, extracted |-> FALSE]
    /\ videoData' = extractVideoData(cards[1])
    /\ evalResult' = [done |-> FALSE]
    /\ UNCHANGED <<pageVars, pushed, loading, triggerVars, evalSettings, walk>>

\* The predicates are applied to the extracted record.
ExtractNext ==
    \/ Extract
    \/ Evaluate
    \/ content_Evaluate

ExtractSpec ==
    ExtractInit /\ [][ExtractNext]_vars

(***************************************************************************)
(* Sanitization of the settings of an update                               *)
(***************************************************************************)

\* The objects updateSettings is called with: raw objects in which each of
\* maxAge, maxAgeYears, bannedKeywords and keywords is missing or present,
\* with values inside and outside the bounds, keywords that are not trimmed,
\* empty or in upper case, and a flag that is not a boolean.
SanitizeInputs ==
    {[viewsFilterEnabled    |-> [t |-> "number", v |-> 1],
      durationFilterEnabled |-> [t |-> "boolean", v |-> FALSE],
      minViews              |-> [t |-> "number", v |-> minViews]]
        @@ maxAge @@ maxAgeYears @@ bannedKeywords @@ keywords :
        minViews \in {0 - 5, 6000},
        maxAge \in {<<>>} \cup {"maxAge" :> [t |-> "number", v |-> n] :
                                   n \in {0, 10, 25}},
        maxAgeYears \in {<<>>} \cup {"maxAgeYears" :> [t |-> "number", v |-> n] :
                                        n \in {0, 7, 50}},
        bannedKeywords \in
            {<<>>,
             "bannedKeywords" :> [t |-> "array", v |-> <<>>],
             "bannedKeywords" :>
                 [t |-> "array",
                  v |-> <<[t |-> "string", v |-> <<" ">> \o Text.Big_SPOILER \o <<" ">>],
                          [t |-> "string", v |-> <<>>],
                          [t |-> "number", v |-> 7]>>]},
        keywords \in
            {<<>>,
             "keywords" :> [t |-> "array", v |-> <<>>],
             "keywords" :> [t |-> "array",
                            v |-> <<[t |-> "string", v |-> Text.Big_SPOILER]>>]}}

\* The engine as constructed, nothing stored.
SanitizeInit ==
    /\ IdlePageVars
    /\ cards = <<>>
    /\ videoData = [title |-> Null, viewCount |-> Null, duration |-> Null,
                    publishTime |-> Null]
    /\ evalSettings = DEFAULT_FILTER_SETTINGS
    /\ evalResult = [done |-> FALSE]
    /\ walk = [result |-> "none"]

SanitizeNext ==
    \/ \E newSettings \in SanitizeInputs : UpdateSettings(newSettings)
    \/ SettingsSaved

SanitizeSpec ==
    SanitizeInit /\ [][SanitizeNext]_vars

(***************************************************************************)
(* The walk over ytInitialData (src/popup.js)                              *)
(***************************************************************************)

\* The most calls of traverseData that are active at a time: one more
\* exceeds the call stack and raises a RangeError.
MaxDepth ==
    5

\* window.ytInitialData is an object graph: the object i of walk.data has the
\* objects children[i] as the values of its keys, in the order of Object.keys.
\* Its renderer tells what the test for richItemRenderer, videoRenderer and
\* gridVideoRenderer finds in it: "none", "video" (a renderer with the video
\* id i) or "malformed" (a renderer without a video id, or one whose read
\* raises an error). The object 1 is ytInitialData itself. <<>> stands for
\* ytInitialData not being set.
\* The graphs: a tree, a graph in which the object 4 is the value of a key
\* of the objects 2 and 3, and a graph in which the object 4 refers back to
\* the object 2.
WalkInit ==
    /\ IdlePageVars
    /\ cards = <<>>
    /\ videoData = [title |-> Null, viewCount |-> Null, duration |-> Null,
                    publishTime |-> Null]
    /\ evalSettings = DEFAULT_FILTER_SETTINGS
    /\ evalResult = [done |-> FALSE]
    /\ \E children \in {<<<<2, 3>>, <<4>>, <<>>, <<>>>>,
                        <<<<2, 3>>, <<4>>, <<4>>, <<>>>>,
                        <<<<2>>, <<3, 4>>, <<>>, <<2>>>>},
          renderers \in [2..4 -> {"none", "video", "malformed"}],
          present \in BOOLEAN :
          walk = [result |-> "none",
                  data   |-> IF present
                             THEN [i \in 1..4 |->
                                      [renderer |-> IF i = 1 THEN "none"
                                                    ELSE renderers[i],
                                       children |-> children[i]]]
                             ELSE <<>>]

\* extractVideoFromRenderer(renderer) for the renderer of the object i: the
\* record's videoId, 0 for the null of a record that was not filled.
extractVideoFromRenderer(data, i) ==
    IF data[i].renderer = "video" THEN i ELSE 0

\* traverseData(obj) up to its loop over the keys, for the object i: the
\* visit is counted and the record of its renderer, if it has a video id, is
\* set in videoDataMap.
traverseData(w, i) ==
    [w EXCEPT !.visits[i] = @ + 1,
              !.videoDataMap =
                  IF /\ w.data[i].renderer # "none"
                     /\ extractVideoFromRenderer(w.data, i) # 0
                  THEN @ \cup {extractVideoFromRenderer(w.data, i)}
                  ELSE @,
              !.stack = Append(@, [obj |-> i, next |-> 1])]

\* extractFromYTInitialData(): null when ytInitialData is not set, else
\* traverseData(ytInitialData).
extractFromYTInitialData ==
    /\ walk.result = "none"
    /\ walk' = IF walk.data = <<>>
               THEN [walk EXCEPT !.result = "null"]
               ELSE traverseData([result       |-> "running",
                                  data         |-> walk.data,
                                  visits       |-> [i \in 1..4 |-> 0],
                                  videoDataMap |-> {},
                                  stack        |-> <<>>], 1)
    /\ UNCHANGED <<pageVars, pushed, loading, triggerVars, videoData,
                   evalSettings, evalResult>>

\* The loop over the keys of the object of the innermost call goes on: it
\* calls traverseData on the next value, which overflows the call stack when
\* MaxDepth calls are active (the catch of extractFromYTInitialData then
\* returns null), or it has ended and the call returns; when the outermost
\* call has returned, videoDataMap is returned.
TraverseStep ==
    /\ walk.result = "running"
    /\ LET top  == walk.stack[Len(walk.stack)]
           keys == walk.data[top.obj].children
       IN  walk' =
               IF top.next <= Len(keys)
               THEN IF Len(walk.stack) >= MaxDepth
                    THEN [walk EXCEPT !.result = "null", !.stack = <<>>]
                    ELSE traverseData(
                             [walk EXCEPT !.stack[Len(walk.stack)].next = @ + 1],
                             keys[top.next])
               ELSE [walk EXCEPT
                        !.stack = SubSeq(@, 1, Len(@) - 1),
                        !.result = IF Len(walk.stack) = 1 THEN "map" ELSE @]
    /\ UNCHANGED <<pageVars, pushed, loading, triggerVars, videoData,
                   evalSettings, evalResult>>

WalkNext ==
    \/ extractFromYTInitialData
    \/ TraverseStep

WalkSpec ==
    WalkInit /\ [][WalkNext]_vars

(***************************************************************************)
(* The triggers (src/src/content/dom-manager.js, setupObservers of         *)
(* src/unnamed/part_003, init of src/content.js): the content observer,    *)
(* the scroll listener, the navigation observer and the timer of the       *)
(* initial pass. Time is counted in ms; the host page acts at instants     *)
(* SlotMs apart, timers run in between.                                     *)
(***************************************************************************)

\* The host page acts every SlotMs ms.
SlotMs ==
    500

\* The most navigation timers that are pending at once.
MaxPending ==
    2

\* The most cards the page shows in all, those replaced by a navigation included.
MaxSeen ==
    3

\* A timer that is set only when none is pending.
Reschedule_keepPending(pending, delay) ==
    IF pending = NoTimeout THEN delay ELSE pending

\* clearTimeout(pending); pending = setTimeout(..., delay)
Reschedule(pending, delay) ==
    delay

\* The content script has loaded settings with the views filter enabled, has
\* set up its observers and has set the timer of the initial pass.
TriggerInit ==
    /\ impl \in {"engine", "content"}
    /\ isInitialized = TRUE
    /\ syncStorage = PopupSettings(TRUE, FALSE, FALSE, FALSE)
    /\ settings = IF impl = "engine"
                  THEN loadSettings(syncStorage)
                  ELSE content_loadSettings(syncStorage)
    /\ stats = DEFAULT_STATS
    /\ cards = <<>>
    /\ storedStats = DEFAULT_STATS
    /\ storedVideos = <<>>
    /\ inflight = <<>>
    /\ saveWaiting = FALSE
    /\ quiescent = FALSE
    /\ lastScan = [called |-> FALSE]
    /\ videoData = [title |-> Null, viewCount |-> Null, duration |-> Null,
                    publishTime |-> Null]
    /\ evalSettings = DEFAULT_FILTER_SETTINGS
    /\ evalResult = [done |-> FALSE]
    /\ walk = [result |-> "none"]
    /\ pushed = NoSettings
    /\ loading = <<>>
    /\ filterTimeout = NoTimeout
    /\ scrollTimeout = NoTimeout
    /\ navTimeouts = <<>>
    /\ initTimeout = InitialDelay
    /\ lastVideoCount = 0
    /\ lastUrl = 0
    /\ sinceSlot = 0
    /\ sinceBatch = MutationDelay
    /\ burst = 0
    /\ lastChecked = 0
    /\ event = [type |-> "none"]
    /\ observing = TRUE
    /\ destroyed = FALSE
    /\ lastError = FALSE
    /\ otherStats = NoStats

\* A callback that does not call the scan.
Scan_never ==
    /\ UNCHANGED <<cards, stats, storedStats, inflight, lastScan>>
    /\ quiescent' = TRUE

\* callback(): this.runFilters() of the engine, runAllFilters() of content.js.
Scan ==
    /\ IF impl = "engine" THEN runFilters ELSE runAllFilters
    /\ quiescent' = TRUE

\* The callback of the content observer for one batch of mutation records:
\* newCards are the cards among the added nodes that are new to the page, moved
\* says that a card already on the page is among the added nodes.
ContentObserver(newCards, moved) ==
    /\ observing
    \* the host page acts at the instants SlotMs apart, once at each
    /\ sinceSlot = 0 /\ event.type \in {"none", "time"}
    /\ Len(cards) + Len(newCards) <= MaxCards
    /\ newCards # <<>> => stats.total + Len(cards) < MaxSeen
    /\ moved => cards # <<>>
    /\ cards' = cards \o [k \in 1..Len(newCards) |-> NewCard(newCards[k])]
    /\ IF newCards # <<>> \/ moved
       THEN /\ filterTimeout' = Reschedule(filterTimeout, MutationDelay)
            /\ sinceBatch' = 0
            /\ burst' = IF filterTimeout = NoTimeout THEN 1 ELSE 2
            /\ quiescent' = (quiescent /\ newCards = <<>>)
       ELSE UNCHANGED <<filterTimeout, sinceBatch, burst, quiescent>>
    /\ event' = [type |-> "batch", qualifying |-> (newCards # <<>> \/ moved),
                 scan |-> FALSE]
    /\ UNCHANGED <<impl, isInitialized, settings, stats, syncStorage, storedStats,
                   storedVideos, inflight, saveWaiting, lastScan, pushed, loading,
                   scrollTimeout, navTimeouts, initTimeout, lastVideoCount, lastUrl,
                   sinceSlot, lastChecked>>
    /\ UNCHANGED filterVars
    /\ UNCHANGED <<observing, destroyed, lastError, otherStats>>

\* handleScroll: clearTimeout(scrollTimeout); scrollTimeout = setTimeout(..., 1000)
HandleScroll ==
    /\ observing
    \* the host page acts at the instants SlotMs apart, once at each
    /\ sinceSlot = 0 /\ event.type \in {"none", "time"}
    /\ scrollTimeout' = Reschedule(scrollTimeout, ScrollDelay)
    /\ event' = [type |-> "scroll", scan |-> FALSE]
    /\ UNCHANGED <<pageVars, pushed, loading, filterVars>>
    /\ UNCHANGED <<filterTimeout, navTimeouts, initTimeout, lastVideoCount, lastUrl,
                   sinceSlot, sinceBatch, burst, lastChecked>>
    /\ UNCHANGED <<observing, destroyed, lastError, otherStats>>

\* The callback of the navigation observer when the title changes while
\* location.href is url; replaced says that the host page has removed the
\* cards of the page it leaves.
NavigationObserver(url, replaced) ==
    /\ observing
    \* the host page acts at the instants SlotMs apart, once at each
    /\ sinceSlot = 0 /\ event.type \in {"none", "time"}
    /\ Len(navTimeouts) < MaxPending
    /\ replaced => (url # lastUrl /\ cards # <<>>)
    /\ cards' = IF replaced THEN <<>> ELSE cards
    /\ quiescent' = (quiescent /\ ~replaced)
    /\ IF url # lastUrl
       THEN /\ lastUrl' = url
            /\ navTimeouts' = Append(navTimeouts, NavigationDelay)
       ELSE UNCHANGED <<lastUrl, navTimeouts>>
    /\ event' = [type |-> "title", changed |-> url # lastUrl, scan |-> FALSE]
    /\ UNCHANGED <<impl, isInitialized, settings, stats, syncStorage, storedStats,
                   storedVideos, inflight, saveWaiting, lastScan, pushed, loading,
                   filterTimeout, scrollTimeout, initTimeout, lastVideoCount,
                   sinceSlot, sinceBatch, burst, lastChecked>>
    /\ UNCHANGED filterVars
    /\ UNCHANGED <<observing, destroyed, lastError, otherStats>>

\* The ms until the next instant at which something happens: a timer is due
\* or the host page may act. 0 when a timer is due now.
NextInstant ==
    Leftmost({SlotMs - sinceSlot}
             \cup ({filterTimeout, scrollTimeout, initTimeout} \ {NoTimeout})
             \cup {navTimeouts[k] : k \in 1..Len(navTimeouts)})

\* Time passes until the next instant; it does not pass a timer that is due.
Advance ==
    /\ NextInstant > 0
    /\ filterTimeout' = IF filterTimeout = NoTimeout THEN NoTimeout ELSE filterTimeout - NextInstant
    /\ scrollTimeout' = IF scrollTimeout = NoTimeout THEN NoTimeout ELSE scrollTimeout - NextInstant
    /\ initTimeout' = IF initTimeout = NoTimeout THEN NoTimeout ELSE initTimeout - NextInstant
    /\ navTimeouts' = [k \in 1..Len(navTimeouts) |-> navTimeouts[k] - NextInstant]
    /\ sinceSlot' = (sinceSlot + NextInstant) % SlotMs
    /\ sinceBatch' = IF sinceBatch + NextInstant > MutationDelay
                     THEN MutationDelay
                     ELSE sinceBatch + NextInstant
    /\ event' = [type |-> "time", scan |-> FALSE]
    /\ UNCHANGED <<pageVars, pushed, loading, filterVars>>
    /\ UNCHANGED <<lastVideoCount, lastUrl, burst, lastChecked>>
    /\ UNCHANGED <<observing, destroyed, lastError, otherStats>>

\* The timer of the initial pass, of the content observer or of the navigation
\* observer is due: its callback calls the scan.
Timeout(trigger) ==
    /\ \/ /\ trigger = "initial"
          /\ initTimeout = 0
          /\ initTimeout' = NoTimeout
          /\ UNCHANGED <<filterTimeout, navTimeouts, burst>>
       \/ /\ trigger = "mutation"
          /\ filterTimeout = 0
          /\ filterTimeout' = NoTimeout
          /\ burst' = 0
          /\ UNCHANGED <<initTimeout, navTimeouts>>
       \/ /\ trigger = "navigation"
          /\ navTimeouts # <<>>
          /\ navTimeouts[1] = 0
          /\ navTimeouts' = Tail(navTimeouts)
          /\ UNCHANGED <<initTimeout, filterTimeout, burst>>
    /\ Scan
    /\ event' = [type |-> "timeout", trigger |-> trigger, scan |-> TRUE,
                 burst |-> burst, sinceBatch |-> sinceBatch]
    /\ UNCHANGED <<impl, isInitialized, settings, syncStorage, storedVideos,
                   saveWaiting, pushed, loading, scrollTimeout, lastVideoCount,
                   lastUrl, sinceSlot, sinceBatch, lastChecked>>
    /\ UNCHANGED filterVars
    /\ UNCHANGED <<observing, destroyed, lastError, otherStats>>

\* The timer of the scroll listener is due: the scan is called if there are
\* more cards than lastVideoCount.
ScrollTimeout ==
    /\ scrollTimeout = 0
    /\ scrollTimeout' = NoTimeout
    /\ IF Len(cards) > lastVideoCount
       THEN /\ lastVideoCount' = Len(cards)
            /\ Scan
       ELSE UNCHANGED <<lastVideoCount, cards, stats, storedStats, inflight,
                        lastScan, quiescent>>
    /\ lastChecked' = Len(cards)
    /\ event' = [type |-> "timeout", trigger |-> "scroll",
                 scan |-> Len(cards) > lastVideoCount,
                 count |-> Len(cards), previous |-> lastChecked]
    /\ UNCHANGED <<impl, isInitialized, settings, syncStorage, storedVideos,
                   saveWaiting, pushed, loading, filterTimeout, navTimeouts,
                   initTimeout, lastUrl, sinceSlot, sinceBatch, burst>>
    /\ UNCHANGED filterVars
    /\ UNCHANGED <<observing, destroyed, lastError, otherStats>>

TriggerNext ==
    \* the host page inserts a card with 6K views or one with 50K views
    \/ \E views \in {Text.views_6K, Text.views_50K} :
          ContentObserver(<<CardContent(Text.Cat_video, Text.at_12_05, views,
                                        Text.ago_3_months)>>, FALSE)
    \/ \E moved \in BOOLEAN : ContentObserver(<<>>, moved)
    \/ HandleScroll
    \/ \E url \in {0, 1}, replaced \in BOOLEAN : NavigationObserver(url, replaced)
    \/ Advance
    \/ \E trigger \in {"initial", "mutation", "navigation"} : Timeout(trigger)
    \/ ScrollTimeout

TriggerSpec ==
    TriggerInit /\ [][TriggerNext]_vars

\* The feed of one page: the host page inserts cards that have 6K views,
\* moves cards and scrolls, and does not navigate.
FeedNext ==
    \/ ContentObserver(<<CardContent(Text.Cat_video, Text.at_12_05, Text.views_6K,
                                     Text.ago_3_months)>>, FALSE)
    \/ ContentObserver(<<>>, TRUE)
    \/ HandleScroll
    \/ Advance
    \/ \E trigger \in {"initial", "mutation"} : Timeout(trigger)
    \/ ScrollTimeout

(***************************************************************************)
(* The surroundings of the content script: destroy() of the engine, a       *)
(* reload of the page, failing writes of chrome.storage.local and the       *)
(* content script of another tab that shares the storage.                   *)
(***************************************************************************)

\* YouTubeFilterEngine.destroy(): the observers are disconnected, the cleanup
\* function of the scroll listener removes it and clears its timer, and
\* isInitialized = false. The timers of the content observer, of the
\* navigation observer and of the initial pass are not cleared.
Destroy ==
    /\ impl = "engine"
    /\ ~destroyed
    /\ destroyed' = TRUE
    /\ observing' = FALSE
    /\ scrollTimeout' = IF observing THEN NoTimeout ELSE scrollTimeout
    /\ isInitialized' = FALSE
    /\ UNCHANGED <<impl, settings, stats, cards, syncStorage, storedStats,
                   storedVideos, inflight, saveWaiting, quiescent, lastScan>>
    /\ UNCHANGED <<filterVars, pushed, loading>>
    /\ UNCHANGED <<filterTimeout, navTimeouts, initTimeout, lastVideoCount, lastUrl,
                   sinceSlot, sinceBatch, burst, lastChecked, event, lastError,
                   otherStats>>

\* The page is reloaded: the content script starts again with the state of
\* its declarations and constructor, on a page that has no cards yet.
Reload ==
    /\ sinceSlot = 0 /\ event.type \in {"none", "time"}
    /\ inflight = <<>> /\ loading = <<>> /\ ~saveWaiting
    /\ storedStats.total < MaxSeen
    /\ isInitialized' = FALSE
    /\ settings' = IF impl = "engine" THEN NoSettings ELSE DEFAULT_SETTINGS
    /\ stats' = IF impl = "engine" THEN NoStats ELSE DEFAULT_STATS
    /\ cards' = <<>>
    /\ quiescent' = FALSE
    /\ lastScan' = [called |-> FALSE]
    /\ filterTimeout' = NoTimeout
    /\ scrollTimeout' = NoTimeout
    /\ navTimeouts' = <<>>
    /\ initTimeout' = NoTimeout
    /\ lastVideoCount' = 0
    /\ lastUrl' = 0
    /\ sinceBatch' = MutationDelay
    /\ burst' = 0
    /\ lastChecked' = 0
    /\ observing' = FALSE
    /\ destroyed' = FALSE
    /\ event' = [type |-> "reload", scan |-> FALSE]
    /\ UNCHANGED <<impl, syncStorage, storedStats, storedVideos, inflight,
                   saveWaiting, pushed, loading, sinceSlot, lastError, otherStats>>
    /\ UNCHANGED filterVars

\* Writes of chrome.storage.local begin to fail or succeed again.
StorageChanges ==
    /\ lastError' = ~lastError
    /\ UNCHANGED <<pageVars, pushed, loading, filterVars>>
    /\ UNCHANGED <<filterTimeout, scrollTimeout, navTimeouts, initTimeout,
                   lastVideoCount, lastUrl, sinceSlot, sinceBatch, burst,
                   lastChecked, event, observing, destroyed, otherStats>>

\* The content script of another tab: it starts (the engine loads the stored
\* statistics, content.js declares them as zeros), and after that each of its
\* scans hides one card with a low view count, adds it to its statistics and
\* saves them.
OtherTab ==
    /\ ~lastError
    /\ IF otherStats = NoStats
       THEN /\ otherStats' = IF impl = "engine" THEN storedStats ELSE DEFAULT_STATS
            /\ UNCHANGED storedStats
       ELSE /\ otherStats.total < MaxSeen
            /\ otherStats' = [otherStats EXCEPT !.views = @ + 1, !.total = @ + 1]
            /\ storedStats' = otherStats'
    /\ UNCHANGED <<impl, isInitialized, settings, stats, cards, syncStorage,
                   storedVideos, inflight, saveWaiting, quiescent, lastScan>>
    /\ UNCHANGED <<filterVars, pushed, loading>>
    /\ UNCHANGED <<filterTimeout, scrollTimeout, navTimeouts, initTimeout,
                   lastVideoCount, lastUrl, sinceSlot, sinceBatch, burst,
                   lastChecked, event, observing, destroyed, lastError>>

\* The scans of one tab and of another one, with reloads and failing writes;
\* the callers of the scan are not told apart.
StorageNext ==
    \/ InsertCard(CardContent(Text.Cat_video, Text.at_12_05, Text.views_6K,
                              Text.ago_3_months))
    \/ RunFilters
    \/ RunAllFilters
    \/ \E k \in 1..MaxCards : HistoryRead(k)
    \/ \E k \in 1..MaxCards : HistoryWrite(k)
    \/ Reload
    \/ Initialize
    \/ SettingsLoaded
    \/ content_init
    \/ StorageChanges
    \/ OtherTab

StorageSpec ==
    TriggerInit /\ [][StorageNext]_vars

\* The engine from its construction on, with its triggers and destroy().
LifecycleNext ==
    \/ Initialize
    \/ SettingsLoaded
    \/ content_init
    \/ Destroy
    \/ FeedNext
    \/ NavigationObserver(1, FALSE)
    \/ Timeout("navigation")

LifecycleSpec ==
    Init /\ [][LifecycleNext]_vars

\* Time goes on and due timers fire: time does not pass a timer that is due,
\* and only its callback ends a due timer, so a timer that fires when it is
\* due is one that does not stay due forever.
FeedSpec ==
    /\ TriggerInit /\ [][FeedNext]_vars
    /\ WF_vars(Advance)
    /\ []<>(initTimeout # 0)
    /\ []<>(filterTimeout # 0)
    /\ []<>(scrollTimeout # 0)

(***************************************************************************)
(* Properties                                                              *)
(***************************************************************************)

\* C1 (Spec): a card that carries data-filtered when a scan starts is not
\* extracted, not evaluated, not re-tagged, not stored in the history and not
\* counted by that scan, in runFilters and in runAllFilters alike; and no
\* card is added to a statistics total more than once.
C1_AtMostOnce ==
    /\ lastScan.called =>
           /\ lastScan.skipped \cap lastScan.evaluated = {}
           /\ lastScan.skipped \cap lastScan.hidden = {}
           /\ lastScan.skipped \cap lastScan.changed = {}
           /\ lastScan.appends = Cardinality(lastScan.hidden \ lastScan.skipped)
           /\ lastScan.delta.total = Cardinality(lastScan.hidden \ lastScan.skipped)
    /\ \A i \in 1..Len(cards) : cards[i].counted <= 1

\* A scan has passed over a tagged card and has hidden another one.
C1_Witness ==
    /\ lastScan.called
    /\ lastScan.ran
    /\ lastScan.skipped # {}
    /\ lastScan.hidden # {}

\* C2 (Spec): a scan that is called after another scan, with no card inserted
\* and no settings loaded or updated in between, hides no card, changes no
\* card, adds zero to every counter and writes neither statistics nor history.
C2_ScanIdempotent ==
    (lastScan.called /\ lastScan.repeat) =>
        /\ lastScan.hidden = {}
        /\ lastScan.changed = {}
        /\ lastScan.delta = [views |-> 0, keywords |-> 0, duration |-> 0, age |-> 0, total |-> 0, nan |-> {}]
        /\ ~lastScan.statsChanged
        /\ lastScan.saves = 0
        /\ lastScan.appends = 0

\* A second scan has run its loop over a page with a hidden card and a
\* visible one.
C2_Witness ==
    /\ lastScan.called
    /\ lastScan.repeat
    /\ lastScan.ran
    /\ lastScan.skipped # {}
    /\ lastScan.evaluated # {}

\* C3 (Spec): a scan called while the four filter-enabled flags of the
\* settings are false changes no card, leaves the statistics as they are and
\* writes nothing.
C3_AllOffNoOp ==
    (lastScan.called /\ lastScan.allOff) =>
        /\ lastScan.hidden = {}
        /\ lastScan.changed = {}
        /\ ~lastScan.statsChanged
        /\ lastScan.saves = 0
        /\ lastScan.appends = 0

\* A scan was called with all flags off on a page that shows a card with 6K
\* views, which the default settings hide.
C3_Witness ==
    /\ lastScan.called
    /\ lastScan.allOff
    /\ \E i \in 1..Len(cards) :
           ~cards[i].filtered /\ includes(cards[i].innerText, Text.views_6K)

\* C6 (Spec): the total of the accumulated statistics is the sum of the four
\* per-reason counters, and so is the total of the delta of every scan.
C6_TotalIsSum ==
    /\ stats # NoStats =>
           stats.total = stats.views + stats.duration + stats.age + stats.keywords
    /\ lastScan.called =>
           lastScan.delta.total = lastScan.delta.views + lastScan.delta.duration
                                  + lastScan.delta.age + lastScan.delta.keywords

\* The title of a card contains one of the keywords, case ignored.
TitleHasKeyword(card, keywords) ==
    \E k \in 1..Len(keywords) :
        includes(toLowerCase(card.title), toLowerCase(keywords[k]))

\* The card shows an age of more than maxAge years.
ShowsAgeOver(card, maxAge) ==
    \E n \in 0..MaxYears :
        n > maxAge /\ includes(card.innerText, AgeText(n, Text.year))

\* C9 (Spec): in content.js, once the settings are loaded with the keyword and
\* the age filter enabled and a scan has been called on the page as it is,
\* every card whose title contains a configured keyword and every card older
\* than the configured maximum age is hidden.
C9_ContentHidesKeywordAndAge ==
    (/\ impl = "content"
     /\ isInitialized
     /\ quiescent
     /\ settings.keywordFilterEnabled
     /\ settings.ageFilterEnabled) =>
        \A i \in 1..Len(cards) :
            (\/ TitleHasKeyword(cards[i], settings.keywords)
             \/ ShowsAgeOver(cards[i], settings.maxAgeYears)) =>
                cards[i].display = "none"

\* The decision of the first of the four predicate results, in the order
\* views, duration, age, keyword, that asks to filter; no decision when none
\* does.
FirstInOrder(r) ==
    IF r.views.shouldFilter THEN r.views
    ELSE IF r.duration.shouldFilter THEN r.duration
    ELSE IF r.age.shouldFilter THEN r.age
    ELSE IF r.keyword.shouldFilter THEN r.keyword
    ELSE NoDecision

NoViewCountCase ==
    /\ evalResult.done
    /\ videoData.viewCount = Null
    /\ evalSettings.viewsFilterEnabled
    /\ evalSettings.minViews = 10000

\* The record has no duration and the settings enable the duration filter
\* with a non-zero bound.
NoDurationCase ==
    /\ evalResult.done
    /\ videoData.duration = Null
    /\ evalSettings.durationFilterEnabled
    /\ (evalSettings.minDuration # 0 \/ evalSettings.maxDuration # 0)

ViewsOnlyCase ==
    /\ evalResult.done
    /\ evalSettings.viewsFilterEnabled
    /\ ~evalSettings.durationFilterEnabled
    /\ ~evalSettings.ageFilterEnabled
    /\ ~evalSettings.keywordFilterEnabled
    /\ evalSettings.minViews > 0
    /\ videoData.viewCount \in {Text.views_6K, Text.views_10K, Text.views_50K}

\* C7 (FilterSpec): with only the views filter enabled and minViews > 0, a
\* record with a numeric view-count text is filtered with reason "views" if
\* and only if parseViewCount(text) < minViews, a count equal to minViews is
\* kept; with minViews = 10000, "6K views" is filtered and "50K views" gets
\* no decision.
C7_ViewsThreshold ==
    ViewsOnlyCase =>
        /\ ~evalResult.parsedViews.nan
        /\ evalResult.parsedViews.exp >= 0
        /\ IF evalResult.parsedViews.num * Pow10(evalResult.parsedViews.exp)
                  < evalSettings.minViews
           THEN /\ evalResult.decision # NoDecision
                /\ evalResult.decision.shouldFilter
                /\ evalResult.decision.reason = "views"
           ELSE evalResult.decision = NoDecision
        /\ (videoData.viewCount = Text.views_6K /\ evalSettings.minViews = 10000) =>
               (evalResult.decision # NoDecision /\ evalResult.decision.reason = "views")
        /\ (videoData.viewCount = Text.views_50K /\ evalSettings.minViews = 10000) =>
               evalResult.decision = NoDecision
        /\ (videoData.viewCount = Text.views_10K /\ evalSettings.minViews = 10000) =>
               evalResult.decision = NoDecision

\* "6K views" was filtered under minViews = 10000.
C7_Witness ==
    /\ ViewsOnlyCase
    /\ videoData.viewCount = Text.views_6K
    /\ evalSettings.minViews = 10000
    /\ evalResult.decision # NoDecision
    /\ evalResult.decision.reason = "views"

\* The modular keyword predicate was applied with the keyword filter enabled
\* and a non-empty list.
KeywordCase ==
    /\ evalResult.done
    /\ evalResult.variant = "engine"
    /\ evalSettings.keywordFilterEnabled
    /\ Len(evalSettings.bannedKeywords) > 0

\* The indexes of the banned keywords that the lower-cased title contains,
\* lower-cased, as a substring.
MatchingKeywords ==
    {k \in 1..Len(evalSettings.bannedKeywords) :
        /\ videoData.title # Null
        /\ includes(toLowerCase(videoData.title),
                    toLowerCase(evalSettings.bannedKeywords[k]))}

\* The predicate filters exactly when one of the keywords at these indexes
\* exists, and reports the first of them.
ReportsFirstOf(indexes) ==
    IF indexes = {}
    THEN ~evalResult.keyword.shouldFilter
    ELSE /\ evalResult.keyword.shouldFilter
         /\ evalResult.keyword.reason = "keyword"
         /\ evalResult.keyword.details =
                <<"Banned keyword",
                  evalSettings.bannedKeywords[CHOOSE k \in indexes :
                                                  \A j \in indexes : k <= j]>>

C10_AgeInYears ==
    evalResult.done =>
        /\ \A n \in 0..MaxYears : \A unit \in {<<"m", "o", "n", "t", "h">>, <<"d", "a", "y">>, Text.year} :
               videoData.publishTime = AgeText(n, unit) =>
                   evalResult.parsedAge = (IF unit = Text.year THEN n ELSE 0)
        /\ Falsy(videoData.publishTime) => evalResult.parsedAge = 0
        /\ (evalSettings.ageFilterEnabled /\ evalSettings.maxAge > 0) =>
               (evalResult.age.shouldFilter <=>
                    \E n \in 0..MaxYears :
                        /\ videoData.publishTime = AgeText(n, Text.year)
                        /\ n > evalSettings.maxAge)

\* A video of 7 years was filtered under maxAge = 5.
C10_Witness ==
    /\ evalResult.done
    /\ videoData.publishTime = AgeText(MaxYears, Text.year)
    /\ evalSettings.ageFilterEnabled
    /\ evalSettings.maxAge = 5
    /\ evalResult.age.shouldFilter
    /\ evalResult.parsedAge = MaxYears

\* parseDuration has been applied to "MM:SS" written from the numbers m and s.
TwoPartCase(m, s) ==
    /\ evalResult.done
    /\ videoData.duration \in
           {ColonText(<<tm, ts>>) : tm \in PartTexts(m), ts \in PartTexts(s)}

\* parseDuration has been applied to "HH:MM:SS" written from h, m and s.
ThreePartCase(h, m, s) ==
    /\ evalResult.done
    /\ videoData.duration \in
           {ColonText(<<th, tm, ts>>) :
               th \in PartTexts(h), tm \in PartTexts(m), ts \in PartTexts(s)}

\* The total seconds of well-formed colon texts, and 0 for no text.
ExactSeconds ==
    /\ \A m, s \in PartNumbers :
           TwoPartCase(m, s) => evalResult.parsedDuration = m * 60 + s
    /\ \A h, m, s \in PartNumbers :
           ThreePartCase(h, m, s) =>
               evalResult.parsedDuration = h * 3600 + m * 60 + s
    /\ (evalResult.done /\ videoData.duration = Text.at_12_05) =>
           evalResult.parsedDuration = 725
    /\ (evalResult.done
        /\ videoData.duration = <<"1", ":", "2", "3", ":", "4", "5">>) =>
           evalResult.parsedDuration = 5025
    /\ (evalResult.done /\ Falsy(videoData.duration)) =>
           evalResult.parsedDuration = 0

\* C11 (ParserSpec), as amended: parseDuration returns MM*60+SS for "MM:SS" and
\* HH*3600+MM*60+SS for "HH:MM:SS" of non-negative integers ("12:05" gives 725,
\* "1:23:45" gives 5025), 0 for empty or null text, and 0 when a part does not
\* begin with a digit; a part that is digits followed by other characters is
\* read as those digits ("12:5x" gives 725).
C11_ColonDuration ==
    /\ ExactSeconds
    /\ \A b \in {<<>>, Text.ab, Text.x5} :
           (evalResult.done /\ videoData.duration \in WithPart(b)) =>
               evalResult.parsedDuration = 0
    /\ (evalResult.done
        /\ videoData.duration = ColonText(<<<<"1", "2">>, Text.five_x>>)) =>
           evalResult.parsedDuration = 725
    /\ (evalResult.done
        /\ videoData.duration = ColonText(<<Text.five_x, <<"1", "2">>>>)) =>
           evalResult.parsedDuration = 312

\* "1:23:45" has been parsed to 5025 seconds.
C11_Witness ==
    /\ ThreePartCase(1, 23, 45)
    /\ evalResult.parsedDuration = 5025

\* C11 as stated: parseDuration returns the total seconds of "MM:SS" and
\* "HH:MM:SS", 0 for empty or null text, and 0 whenever a colon-separated part
\* is not a number.
C11_ZeroWhenNotANumber ==
    /\ ExactSeconds
    /\ \A b \in {<<>>, Text.ab, Text.x5, Text.five_x} :
           (evalResult.done /\ videoData.duration \in WithPart(b)) =>
               evalResult.parsedDuration = 0

\* The parsed number r is num * 10^exp.
ValueIs(r, num, exp) ==
    /\ ~r.nan
    /\ IF r.exp >= exp
       THEN r.num * Pow10(r.exp - exp) = num
       ELSE r.num = num * Pow10(exp - r.exp)

\* parseViewCount on <number>[.<decimals>][K|M|B][ view[s]]: the number times
\* 1e3, 1e6, 1e9 or 1.
WellFormedViewCounts ==
    evalResult.done =>
        /\ \A w \in ViewParts.wholes, d \in ViewParts.decimals,
              x \in ViewParts.suffixes, tail \in ViewParts.tails :
               videoData.viewCount = w.text \o d.text \o x.text \o tail =>
                   ValueIs(evalResult.parsedViews,
                           w.val * Pow10(d.len) + d.val, x.exp - d.len)
        /\ videoData.viewCount =
               <<"1", ".", "4", "K", " ", "v", "i", "e", "w", "s">> =>
               ValueIs(evalResult.parsedViews, 1400, 0)
        /\ videoData.viewCount = <<"2", ".", "3", "M">> =>
               ValueIs(evalResult.parsedViews, 2300000, 0)

\* C12 (ParserSpec): parseViewCount gives the number times 1e3, 1e6 or 1e9 for
\* the suffix K, M or B in either letter case, the literal number without a
\* suffix, with thousands separators removed and "view"/"views" allowed after
\* it; empty, null and unparseable input and "No views" give 0.
C12_ViewCountValues ==
    /\ WellFormedViewCounts
    /\ (evalResult.done
        /\ videoData.duration = Null
        /\ videoData.viewCount \in
               {Null, <<>>, Text.No_views, Text.abc, Text.dot, Text.N_A}) =>
           ValueIs(evalResult.parsedViews, 0, 0)

\* C13 (Spec): the stored history never has more than 100 entries, nor does any
\* value an append is about to write; an append that read a full history
\* writes that history without its oldest entry, in the same order, with the
\* new entry last, and an append that read a shorter one writes it with the
\* new entry last.
C13_HistoryCap ==
    /\ [](/\ Len(storedVideos) <= HistoryCap
          /\ \A k \in 1..Len(inflight) :
                 inflight[k].phase = "set" => Len(inflight[k].videos) <= HistoryCap)
    /\ [][\A k \in 1..Len(inflight) :
              (/\ Len(inflight') = Len(inflight)
               /\ storedVideos' = storedVideos
               /\ inflight[k].phase = "get"
               /\ inflight'[k].phase = "set") =>
                  inflight'[k].videos =
                      (IF Len(storedVideos) >= HistoryCap
                       THEN Tail(storedVideos)
                       ELSE storedVideos)
                      \o <<[title  |-> inflight[k].title,
                            reason |-> inflight[k].reason]>>]_vars

\* An append has read a full history of 100 entries and holds 100 entries to
\* write, the last of them its own.
C13_Witness ==
    /\ Len(storedVideos) = HistoryCap
    /\ \E k \in 1..Len(inflight) :
           /\ inflight[k].phase = "set"
           /\ Len(inflight[k].videos) = HistoryCap
           /\ inflight[k].videos[HistoryCap].title = inflight[k].title
           /\ inflight[k].videos[1] = storedVideos[2]

\* C14 (Spec): once updateSettings(s) has replaced the engine's settings, the
\* latest scan that ran its loop after the update read the validated form of
\* s, the continuation of the update is a call of the scan, and a tagged card
\* is never changed again: it keeps its tag, stays hidden and is not evaluated
\* by any scan.
C14_LaterScansUseUpdate ==
    /\ []((impl = "engine" /\ quiescent /\ pushed # NoSettings /\ lastScan.ran) =>
             /\ lastScan.settings = validateAndSanitizeSettings(pushed)
             /\ lastScan.evaluated \cap lastScan.skipped = {})
    /\ [][/\ (saveWaiting /\ ~saveWaiting') => (quiescent' /\ lastScan'.called)
          /\ \A i \in 1..Len(cards) : cards[i].filtered => cards'[i] = cards[i]]_vars

\* C15 (Spec): when the latest scan hid k >= 2 cards and all history appends
\* have completed, with the cap not reached, the stored history holds at
\* least k entries with the titles of those cards.
C15_NoEntryLost ==
    (/\ lastScan.called
     /\ lastScan.ran
     /\ lastScan.appends >= 2
     /\ inflight = <<>>
     /\ Len(storedVideos) < HistoryCap) =>
        Cardinality({n \in 1..Len(storedVideos) :
                        storedVideos[n].title \in
                            {(IF Falsy(extractVideoData(cards[i]).title)
                             THEN <<"U", "n", "k", "n", "o", "w", "n", " ", "t", "i", "t", "l", "e">>
                             ELSE extractVideoData(cards[i]).title) :
                                i \in lastScan.hidden}})
            >= lastScan.appends

\* C16 (Spec), as amended: a scan that runs its loop extracts and evaluates
\* exactly the cards that carry no decision tag when it starts; a card hidden
\* by an earlier scan is not evaluated again, and a card that an earlier scan
\* evaluated and left visible is evaluated again.
C16_EvaluatesUntagged ==
    (lastScan.called /\ lastScan.ran /\ quiescent) =>
        /\ lastScan.evaluated = (1..Len(cards)) \ lastScan.skipped
        /\ \A i \in lastScan.evaluated \ lastScan.hidden : ~cards[i].filtered

\* A scan repeated with nothing inserted or updated since the scan before it
\* evaluated a card again that the scan before had left visible, and skipped
\* one that was hidden.
C16_Witness ==
    /\ lastScan.called
    /\ lastScan.ran
    /\ lastScan.repeat
    /\ quiescent
    /\ lastScan.evaluated # {}
    /\ lastScan.skipped # {}

\* C16 as stated: a scan evaluates only cards that no earlier scan has
\* evaluated, so a scan that repeats a scan over the same cards evaluates none.
C16_OnlyNewlySeen ==
    (lastScan.called /\ lastScan.ran /\ lastScan.repeat) =>
        lastScan.evaluated = {}


C18_SinglePendingScan ==
    Len(navTimeouts) <= 1

\* C19: a scroll check calls the scan if and only if it counts more cards
\* than the previous scroll check did (0 before the first), and the stored
\* count after a check is the count of that check.
C19_ScrollCheck ==
    (event.type = "timeout" /\ event.trigger = "scroll")
        => /\ event.scan = (event.count > event.previous)
           /\ lastVideoCount = event.count


\* Card i is on the page and a filter that is enabled asks to hide it.
FailsFilter(i) ==
    /\ i <= Len(cards)
    /\ NoDecision # (IF impl = "engine"
                     THEN applyAllFilters(extractVideoData(cards[i]), settings)
                     ELSE content_triggeredFilter(extractVideoData(cards[i]), settings))

\* Card i is hidden and tagged, or the host page has removed it.
HiddenOrGone(i) ==
    i <= Len(cards) => (cards[i].filtered /\ cards[i].display = "none")

\* C20: with time going on and due timers firing, every card on the page
\* that fails an enabled filter is eventually hidden and tagged, whatever the
\* batches and scroll events do.
C20_EventuallyFiltered ==
    \A i \in 1..MaxCards : FailsFilter(i) ~> HiddenOrGone(i)

\* C20, amended: the same whenever the content observer's timer is idle again
\* and again, that is, whenever the batches with a card pause for
\* MutationDelay ms again and again.
C20_FilteredAfterPause ==
    \A i \in 1..MaxCards :
        []<>(filterTimeout = NoTimeout) => (FailsFilter(i) ~> HiddenOrGone(i))

\* The content observer's timer has called a scan that hid a failing card.
C20_Witness ==
    /\ event.type = "timeout"
    /\ event.trigger = "mutation"
    /\ \E i \in lastScan.hidden : cards[i].filtered /\ cards[i].display = "none"


\* C21 (StorageSpec): a scan that hides cards while the writes of the storage
\* fail stores no statistics, and still every card it hid is hidden and
\* tagged, the statistics in memory have the increment and every untagged
\* card was evaluated; a history write that fails changes no card and no
\* statistics, stores nothing and is dropped, and an append whose write was
\* issued never starts again.
C21_NoRollback ==
    [][/\ (lastError /\ Len(cards') = Len(cards) /\ cards' # cards)
            => /\ storedStats' = storedStats
               /\ lastScan'.saves = 1
               /\ stats'.total = stats.total + Cardinality(lastScan'.hidden)
               /\ \A i \in lastScan'.hidden :
                      cards'[i].filtered /\ cards'[i].display = "none"
               /\ lastScan'.evaluated \cup lastScan'.hidden
                      = {i \in 1..Len(cards) : ~cards[i].filtered}
       /\ (lastError /\ Len(inflight') < Len(inflight))
            => /\ storedVideos' = storedVideos
               /\ cards' = cards
               /\ stats' = stats
               /\ \E k \in 1..Len(inflight) :
                      /\ inflight[k].phase = "set"
                      /\ inflight' = SubSeq(inflight, 1, k - 1)
                                       \o SubSeq(inflight, k + 1, Len(inflight))
       /\ Len(inflight') = Len(inflight)
            => \A k \in 1..Len(inflight) :
                   inflight[k].phase = "set" => inflight'[k] = inflight[k]]_vars

\* A scan has hidden a card and its statistics were not stored; the history
\* write of the card has failed as well and nothing is pending.
C21_Witness ==
    /\ lastError
    /\ lastScan.called /\ lastScan.ran /\ lastScan.saves = 1
    /\ \E i \in lastScan.hidden : cards[i].filtered /\ cards[i].display = "none"
    /\ stats.total > storedStats.total
    /\ inflight = <<>>
    /\ storedVideos = <<>>


\* C27 (StorageSpec): the stored filterStats.total never decreases, and a
\* scan that hides cards while the writes succeed leaves it at its earlier
\* stored value plus the number of cards the scan hid.
C27_PersistedTotal ==
    [][/\ storedStats'.total >= storedStats.total
       /\ (~lastError /\ Len(cards') = Len(cards) /\ cards' # cards)
            => storedStats'.total
                   = storedStats.total + Cardinality(lastScan'.hidden)]_vars


\* C30 (LifecycleSpec): a timer of the engine that fires while the engine is
\* not initialized, or after destroy(), calls a scan that changes no card, no
\* statistics and nothing in storage; after destroy() no observer and no
\* scroll listener is registered.
C30_LifecycleGuard ==
    /\ [](destroyed => ~observing)
    /\ [][(impl = "engine" /\ event'.type = "timeout" /\ event' # event
              /\ (~isInitialized \/ destroyed))
            => UNCHANGED <<cards, stats, storedStats, storedVideos, inflight>>]_vars


(***************************************************************************)
(* Extraction errors                                                       *)
(***************************************************************************)

\* C22: when the extraction of one field raises an error, only that field is
\* null in the record extractVideoData returns: every other field has the
\* value it has on the same card without the error, and so an error for the
\* title or for the duration leaves the decision of the views predicate as it
\* is without the error.
C22_ErrorsIsolatedPerField ==
    (cards # <<>> /\ "variant" \in DOMAIN evalResult)
        => /\ \A field \in {"title", "duration", "viewCount", "publishTime"} :
                  \/ /\ field = "title"
                     /\ cards[1].raises = 1
                  \/ /\ field = "duration"
                     /\ cards[1].raises = 2
                  \/ /\ field = "viewCount"
                     /\ cards[1].raises = 3
                  \/ /\ field = "publishTime"
                     /\ cards[1].raises = 4
                  \/ videoData[field] =
                         extractVideoData([cards[1] EXCEPT !.raises = 0])[field]
           /\ cards[1].raises \in {1, 2}
                  => evalResult.views =
                         IF evalResult.variant = "engine"
                         THEN checkViewsFilter(
                                  extractVideoData([cards[1] EXCEPT !.raises = 0]),
                                  evalSettings)
                         ELSE content_checkViewsFilter(
                                  extractVideoData([cards[1] EXCEPT !.raises = 0]),
                                  evalSettings)


(***************************************************************************)
(* The "No views" sentinel                                                 *)
(***************************************************************************)

\* A card that shows "No views" has been extracted without an error and the
\* predicates have been applied.
SentinelCase ==
    /\ cards # <<>>
    /\ "variant" \in DOMAIN evalResult
    /\ cards[1].raises = 0
    /\ \E i \in 1..Len(cards[1].innerText) :
           MatchesAtI(cards[1].innerText, i, Text.No_views)

\* The result of the views predicate of the variant that was applied, for the
\* extracted record with its view count absent.
AbsentCountResult ==
    IF evalResult.variant = "engine"
    THEN checkViewsFilter([videoData EXCEPT !.viewCount = Null], evalSettings)
    ELSE content_checkViewsFilter([videoData EXCEPT !.viewCount = Null], evalSettings)

\* C23: a card that shows "No views" and no numeric count is extracted with
\* viewCount = "No views"; the views predicate parses this text as the count
\* 0 and compares it with minViews, so the card is hidden exactly when the
\* views filter is enabled with minViews > 0, with the reason "views" and the
\* details of a low count; an absent count is hidden in the same cases.
C23_SentinelIsZero ==
    SentinelCase
        => /\ videoData.viewCount = Text.No_views
           /\ evalResult.parsedViews = [nan |-> FALSE, num |-> 0, exp |-> 0]
           /\ evalResult.views.shouldFilter
                  = (evalSettings.viewsFilterEnabled /\ evalSettings.minViews > 0)
           /\ evalResult.views.shouldFilter = AbsentCountResult.shouldFilter
           /\ evalResult.views.shouldFilter
                  => /\ evalResult.views.reason = "views"
                     /\ evalResult.views.details = <<"Low views", Text.No_views>>

C23_Witness ==
    /\ SentinelCase
    /\ evalResult.variant = "content"
    /\ evalResult.views.shouldFilter
    /\ evalResult.views.reason = "views"
    /\ AbsentCountResult.reason = "no-views"

\* C23 as stated: the views predicate gives for the sentinel the decision,
\* reason included, that it gives for an absent view count.
C23_SentinelIsNoData ==
    SentinelCase
        => /\ videoData.viewCount = Text.No_views
           /\ evalResult.views.shouldFilter = AbsentCountResult.shouldFilter
           /\ evalResult.views.shouldFilter
                  => evalResult.views.reason = AbsentCountResult.reason


(***************************************************************************)
(* Counts written with thousands separators                                *)
(***************************************************************************)

\* C26: for a card whose visible text shows "1,234,567 views", extracted
\* without an error, the number the views predicate compares with minViews is
\* 1234567, and the views predicate does not hide the card when minViews is
\* at most that count.
C26_FullFormCount ==
    (/\ cards # <<>>
     /\ "variant" \in DOMAIN evalResult
     /\ cards[1].raises = 0
     /\ \E i \in 1..Len(cards[1].innerText) :
            MatchesAtI(cards[1].innerText, i, Text.views_1_234_567))
        => /\ ValueIs(evalResult.parsedViews, 1234567, 0)
           /\ evalSettings.minViews <= 1234567 => ~evalResult.views.shouldFilter


(***************************************************************************)
(* The duration predicate                                                  *)
(***************************************************************************)

\* C25: the duration predicate filters a record with a duration text, with
\* the reason "duration", exactly when the filter is enabled and the parsed
\* duration is below a non-zero minDuration or above a non-zero maxDuration;
\* so a bound of 0 does not restrict and a duration equal to a bound is kept.
\* With the filter disabled or both bounds 0 no record is filtered.
C25_DurationPredicate ==
    (evalResult.done /\ "variant" \in DOMAIN evalResult)
        => /\ videoData.duration # Null
                  => /\ evalResult.duration.shouldFilter
                            <=> /\ evalSettings.durationFilterEnabled
                                /\ \/ /\ evalSettings.minDuration # 0
                                      /\ evalResult.parsedDuration
                                             < evalSettings.minDuration
                                   \/ /\ evalSettings.maxDuration # 0
                                      /\ evalResult.parsedDuration
                                             > evalSettings.maxDuration
                     /\ evalResult.duration.shouldFilter
                            => evalResult.duration.reason = "duration"
           /\ (\/ ~evalSettings.durationFilterEnabled
               \/ (evalSettings.minDuration = 0 /\ evalSettings.maxDuration = 0))
                  => ~evalResult.duration.shouldFilter

\* The duration is equal to the lower bound and below the upper one: kept.
C25_Witness ==
    /\ evalResult.done
    /\ "variant" \in DOMAIN evalResult
    /\ evalSettings.durationFilterEnabled
    /\ videoData.duration = Text.at_0_45
    /\ evalResult.parsedDuration = evalSettings.minDuration
    /\ evalSettings.maxDuration = 725
    /\ ~evalResult.duration.shouldFilter


(***************************************************************************)
(* Sanitized settings                                                      *)
(***************************************************************************)

\* C28: the settings validateAndSanitizeSettings returns for the object of an
\* update, with or without the legacy keys maxAgeYears and keywords, have four
\* boolean flags, non-negative integers minViews, minDuration and maxDuration,
\* an integer maxAge between 0 and 20, and bannedKeywords a list of non-empty,
\* trimmed, lower-case strings.
C28_SettingsShape ==
    pushed # NoSettings
        => /\ \A key \in {"viewsFilterEnabled", "durationFilterEnabled",
                          "keywordFilterEnabled", "ageFilterEnabled"} :
                  settings[key] \in BOOLEAN
           /\ \A key \in {"minViews", "minDuration", "maxDuration"} :
                  settings[key] \in Nat
           /\ settings.maxAge \in 0..20
           /\ \A i \in 1..Len(settings.bannedKeywords) :
                  /\ settings.bannedKeywords[i] # <<>>
                  /\ trim(settings.bannedKeywords[i]) = settings.bannedKeywords[i]
                  /\ toLowerCase(settings.bannedKeywords[i]) = settings.bannedKeywords[i]

\* C29: sanitizing the sanitized settings of an update gives them back, so
\* the settings updateSettings has written to storage are equal to the
\* settings the engine holds.
C29_SanitizeIdempotent ==
    pushed # NoSettings
        => /\ validateAndSanitizeSettings(Tag(settings)) = settings
           /\ \A key \in DOMAIN settings : Untag(syncStorage[key]) = settings[key]


(***************************************************************************)
(* The walk over ytInitialData                                             *)
(***************************************************************************)

\* The objects reachable from the objects S of the graph data.
RECURSIVE ReachableFrom(_, _)
ReachableFrom(data, S) ==
    LET T == S \cup UNION {{data[i].children[k] : k \in 1..Len(data[i].children)} :
                              i \in S}
    IN  IF T = S THEN S ELSE ReachableFrom(data, T)

\* C24: the walk of extractFromYTInitialData over an object graph ends with
\* every object reachable from ytInitialData visited exactly once, also when
\* an object is reachable along two paths or the graph has a cycle, and it
\* returns the map with the records of all the well-formed renderers, a
\* malformed renderer being skipped.
C24_WalkVisitsOnce ==
    (walk.result \in {"map", "null"} /\ walk.data # <<>>)
        => /\ walk.result = "map"
           /\ \A i \in ReachableFrom(walk.data, {1}) : walk.visits[i] = 1
           /\ walk.videoDataMap =
                  {i \in ReachableFrom(walk.data, {1}) :
                      walk.data[i].renderer = "video"}

=============================================================================
